---------------------------- MODULE Spec2Model ----------------------------
(***************************************************************************)
(* Model of the LogicBackup logistics application: the shared realtime     *)
(* store (vehicles, users, bookings, vehicleLocations, vehicleTrackingIds) *)
(* and the client routines that read and write it.  Every store call that  *)
(* the source awaits is one step of the calling client, so the states      *)
(* between the writes of one call are states of the model.                 *)
(***************************************************************************)
EXTENDS Integers, Sequences, FiniteSets, TLC

VARIABLES
    vehicles,   \* vehicles/{id}: [exists, driverId, available ("true", "false", "unset")]
    users,      \* users/{uid}: [exists, role, assignedVehicleId]
    authed,     \* getAuth().currentUser is set
    proc,       \* per client: the service call in flight and its locals
    issued,     \* clients that have issued their call (race specification)
    log,        \* history: the last assignDriver calls that completed successfully
    bookings,   \* bookings/{id}: [exists, vehicleId, status]
    vehicleTrackingIds, \* vehicleTrackingIds/{vehicleId}: [exists, trackingId]
    tlog,       \* history: the resolver calls made since the last store change
    vehicleLocations,   \* vehicleLocations/{vehicleId}: [exists, lat, lng, timestamp, trackingId]
    clock,              \* ticks of the driver device's clock since the session was mounted
    phase,              \* driver session: "mounted", "sharing" or "disabled"
    vehicleIdRef,       \* vehicleIdRef.current
    lastUpdateRef,      \* lastUpdateRef.current
    lastLocationRef,    \* lastLocationRef.current
    ev,                 \* history: the last reading delivered to the session and its fate
    scen,               \* history: progress of the session's first four throttled readings
    faults,             \* history: calls of the session in which a store request failed
    written,            \* history, per vehicle: the location writes the store has committed
    alive,              \* the effect of the driver session has not been cleaned up
    initPc,             \* position of initializeLocationSharing
    gpsStatus,          \* the gpsStatus state of the component
    useFallbackLocation,    \* the useFallbackLocation state of the component
    captured,           \* useFallbackLocation as the session's closures see it
    watchOn,            \* a geolocation watch of the session is registered
    timersOn,           \* the interval timers of the session that are running
    att,                \* per origin, the tryGPSLocation call that is outstanding
    retryTimer,         \* retryCount of the pending retry timeout, or 0
    hist,               \* history: what has happened in the session so far
    aev,                \* history: the last acquisition event and what it did
    authlog,            \* history: the last operation and how it dealt with the store
    deliveries,         \* per tab, the state of the MyDeliveries page; the last driver change
    views,              \* the useRealtimeLocation hooks and the listeners the store holds
    admin,              \* history: what the admin's completed calls did
    shop                \* per customer, the vehicle list and the selected vehicle

vars == <<vehicles, users, authed, proc, issued, log, bookings,
          vehicleTrackingIds, tlog, vehicleLocations, clock, phase,
          vehicleIdRef, lastUpdateRef, lastLocationRef, ev, scen, faults,
          written, alive, initPc, gpsStatus, useFallbackLocation, captured,
          watchOn, timersOn, att, retryTimer, hist, aev, authlog, deliveries,
          views, admin, shop>>

\* the variables left alone by the calls of each service
bookingVars == <<bookings>>
assignOnlyVars == <<users, authed, issued, log>>
trackVars == <<vehicleTrackingIds, tlog>>
sessionVars == <<vehicleLocations, clock, phase, vehicleIdRef, lastUpdateRef,
                 lastLocationRef, ev, scen, faults>>
acqVars == <<alive, initPc, gpsStatus, useFallbackLocation, captured, watchOn,
             timersOn, att, retryTimer, hist, aev>>
auxVars == <<views, admin, shop>>
extVars == <<written, acqVars, authlog, deliveries, auxVars>>

----------------------------------------------------------------------------
(* Bounds and identifiers *)

NumVehicles == 3
NumDrivers == 2
MaxBookings == 2
NumBookedVehicles == 2

\* JavaScript null / undefined / '' (all falsy) for an id-valued field
Null == 0

VehicleIds == 1..NumVehicles
\* a vehicle id that no record was ever created for
GhostVehicle == NumVehicles + 1
AllVehicleIds == 1..(NumVehicles + 1)

DriverIds == 1..NumDrivers
\* a user whose role is not driver, and a uid with no record
CustomerId == NumDrivers + 1
GhostUser == NumDrivers + 2
AllUserIds == 1..(NumDrivers + 2)

\* two clients (browser sessions) act on the store
Clients == {1, 2}

Idle == [op |-> "idle"]
AllIdle == \A c \in Clients : proc[c].op = "idle"

----------------------------------------------------------------------------
(* The store: update(ref, fields) merges the fields into the node and, as  *)
(* every update in the source carries updatedAt, leaves the node existing. *)

AbsentVehicle == [exists |-> FALSE, driverId |-> Null, available |-> "unset"]
AbsentUser == [exists |-> FALSE, role |-> "none", assignedVehicleId |-> Null]

UpdateVehicleDriver(vs, v, d) ==
    [vs EXCEPT ![v] = [@ EXCEPT !.exists = TRUE, !.driverId = d]]

UpdateUserVehicle(us, u, v) ==
    [us EXCEPT ![u] = [@ EXCEPT !.exists = TRUE, !.assignedVehicleId = v]]

\* the bidirectional vehicle-driver invariant of the data model
LinkConsistent(vs, us) ==
    \A v \in AllVehicleIds, d \in DriverIds :
        (vs[v].driverId = d) <=> (us[d].assignedVehicleId = v)

----------------------------------------------------------------------------
(* vehicleService.assignDriver *)

\* line 259: the driver is already assigned to another vehicle
DriverOnOtherVehicleSkip(assigned, vehicleId) == FALSE
DriverOnOtherVehicle(assigned, vehicleId) ==
    assigned # Null /\ assigned # vehicleId

\* line 274: the vehicle had a previous, different driver
HadOtherDriverSkip(currentDriverId, driverId) == FALSE
HadOtherDriver(currentDriverId, driverId) ==
    currentDriverId # Null /\ currentDriverId # driverId

\* lines 268-271: the value written to the driver's assignedVehicleId
DriverLinkValueStale(vehicleId, assigned) == assigned
DriverLinkValue(vehicleId, assigned) == vehicleId

LogAssign(c, ok) ==
    LET e == [vehicleId |-> proc[c].vehicleId, driverId |-> proc[c].driverId]
        l == Append(log, e)
    IN  log' = IF ~ok THEN log
               ELSE IF Len(l) > 2 THEN Tail(l) ELSE l

\* lines 225-231: requireAuth, the vehicleId check, entry into the try block
AssignDriverCall(c, vehicleId, driverId) ==
    /\ proc[c].op = "idle"
    /\ authed
    /\ vehicleId # Null
    /\ proc' = [proc EXCEPT ![c] =
                 [op |-> "assignDriver", pc |-> "getVehicle",
                  vehicleId |-> vehicleId, driverId |-> driverId,
                  currentDriverId |-> Null, assigned |-> Null]]
    /\ UNCHANGED <<vehicles, users, authed, log>>

\* lines 233-241: get(vehicleRef); throws when the vehicle is absent
AssignGetVehicle(c) ==
    /\ proc[c].op = "assignDriver" /\ proc[c].pc = "getVehicle"
    /\ LET p == proc[c]
           cur == vehicles[p.vehicleId].driverId
       IN  IF ~vehicles[p.vehicleId].exists
           THEN /\ proc' = [proc EXCEPT ![c] = Idle]
                /\ LogAssign(c, FALSE)
           ELSE /\ proc' = [proc EXCEPT ![c] =
                     [p EXCEPT !.currentDriverId = cur,
                               !.pc = IF p.driverId # Null THEN "getDriver"
                                      ELSE IF cur # Null THEN "clearPrevDriver"
                                      ELSE "setVehicle"]]
                /\ UNCHANGED log
    /\ UNCHANGED <<vehicles, users, authed, issued>>

\* lines 246-256: get(driverRef); throws when absent or not a driver
AssignGetDriver(c) ==
    /\ proc[c].op = "assignDriver" /\ proc[c].pc = "getDriver"
    /\ LET p == proc[c]
           driverData == users[p.driverId]
       IN  IF ~driverData.exists \/ driverData.role # "driver"
           THEN /\ proc' = [proc EXCEPT ![c] = Idle]
                /\ LogAssign(c, FALSE)
           ELSE /\ proc' = [proc EXCEPT ![c] =
                     [p EXCEPT !.assigned = driverData.assignedVehicleId,
                               !.pc = IF DriverOnOtherVehicle(
                                            driverData.assignedVehicleId, p.vehicleId)
                                      THEN "clearOtherVehicle" ELSE "setDriver"]]
                /\ UNCHANGED log
    /\ UNCHANGED <<vehicles, users, authed, issued>>

\* lines 261-264: remove the driver from the vehicle it was assigned to
AssignClearOtherVehicle(c) ==
    /\ proc[c].op = "assignDriver" /\ proc[c].pc = "clearOtherVehicle"
    /\ vehicles' = UpdateVehicleDriver(vehicles, proc[c].assigned, Null)
    /\ proc' = [proc EXCEPT ![c].pc = "setDriver"]
    /\ UNCHANGED <<users, authed, issued, log>>

\* lines 268-271: point the driver at this vehicle
AssignSetDriver(c) ==
    /\ proc[c].op = "assignDriver" /\ proc[c].pc = "setDriver"
    /\ LET p == proc[c]
       IN  /\ users' = UpdateUserVehicle(users, p.driverId, DriverLinkValue(p.vehicleId, p.assigned))
           /\ proc' = [proc EXCEPT ![c].pc =
                         IF HadOtherDriver(p.currentDriverId, p.driverId)
                         THEN "clearPrevDriver" ELSE "setVehicle"]
    /\ UNCHANGED <<vehicles, authed, issued, log>>

\* lines 275-279 (assignment) and 284-288 (unassignment)
AssignClearPrevDriver(c) ==
    /\ proc[c].op = "assignDriver" /\ proc[c].pc = "clearPrevDriver"
    /\ users' = UpdateUserVehicle(users, proc[c].currentDriverId, Null)
    /\ proc' = [proc EXCEPT ![c].pc = "setVehicle"]
    /\ UNCHANGED <<vehicles, authed, issued, log>>

\* lines 293-296: write the vehicle's driverId; the call returns
AssignSetVehicle(c) ==
    /\ proc[c].op = "assignDriver" /\ proc[c].pc = "setVehicle"
    /\ vehicles' = UpdateVehicleDriver(vehicles, proc[c].vehicleId, proc[c].driverId)
    /\ proc' = [proc EXCEPT ![c] = Idle]
    /\ LogAssign(c, TRUE)
    /\ UNCHANGED <<users, authed, issued>>

AssignStep(c) ==
    \/ AssignGetVehicle(c)
    \/ AssignGetDriver(c)
    \/ AssignClearOtherVehicle(c)
    \/ AssignSetDriver(c)
    \/ AssignClearPrevDriver(c)
    \/ AssignSetVehicle(c)

----------------------------------------------------------------------------
(* Initial stores *)

InitUsers ==
    [u \in AllUserIds |->
        IF u \in DriverIds
        THEN [exists |-> TRUE, role |-> "driver", assignedVehicleId |-> Null]
        ELSE IF u = CustomerId
        THEN [exists |-> TRUE, role |-> "customer", assignedVehicleId |-> Null]
        ELSE AbsentUser]

InitVehicles ==
    [v \in AllVehicleIds |->
        IF v \in VehicleIds
        THEN [exists |-> TRUE, driverId |-> Null, available |-> "true"]
        ELSE AbsentVehicle]

\* every store in which the vehicle-driver links are consistent
ConsistentStores ==
    { s \in [vs : {[v \in AllVehicleIds |->
                      IF v \in VehicleIds
                      THEN [InitVehicles[v] EXCEPT !.driverId = m[v]]
                      ELSE AbsentVehicle] :
                    m \in [VehicleIds -> DriverIds \cup {Null}]},
             us : {[u \in AllUserIds |->
                      IF u \in DriverIds
                      THEN [InitUsers[u] EXCEPT !.assignedVehicleId = a[u]]
                      ELSE InitUsers[u]] :
                    a \in [DriverIds -> VehicleIds \cup {Null}]}] :
        LinkConsistent(s.vs, s.us) }

NoBooking == [exists |-> FALSE, vehicleId |-> Null, status |-> "none"]

\* lastLocationRef.current: null, or the last admitted { lat, lng }
NoPoint == [set |-> FALSE, lat |-> 0, lng |-> 0]
Point(lat, lng) == [set |-> TRUE, lat |-> lat, lng |-> lng]

NoLocationRecord ==
    [exists |-> FALSE, lat |-> 0, lng |-> 0, timestamp |-> 0, trackingId |-> <<>>]

NoEvent == [kind |-> "none"]
ScenStart == [n |-> 0]
ScenOff == [n |-> -1]

\* the driver session before the component is mounted and has run anything
InitSessionVars ==
    /\ vehicleLocations = [v \in AllVehicleIds |-> NoLocationRecord]
    /\ clock = 0
    /\ phase = "mounted"
    /\ vehicleIdRef = Null
    /\ lastUpdateRef = 0
    /\ lastLocationRef = NoPoint
    /\ ev = NoEvent
    /\ scen = ScenStart
    /\ faults = 0

\* nothing has been committed to vehicleLocations/{v}
NothingWritten == [n |-> 0, first |-> <<>>, ids |-> {}, fellBack |-> FALSE,
                   lat |-> 0, decreased |-> FALSE]

\* the origins of a tryGPSLocation call: initializeLocationSharing, the
\* retry timeout of handleGeolocationError, the 60 s retry interval
Slots == {"init", "retry", "tick"}
NoAttempt == [st |-> "none", retryCount |-> 0]
NoHistory == [attempts |-> 0, hardError |-> FALSE]
NoAcqEvent == [kind |-> "none", scheduledRetry |-> FALSE,
               startedAttempt |-> FALSE, ended |-> FALSE, wrote |-> FALSE]

\* lines 9-16: the component as it is mounted
InitAcqVars ==
    /\ alive = TRUE
    /\ initPc = "idle"
    /\ gpsStatus = "searching"
    /\ useFallbackLocation = FALSE
    /\ captured = FALSE
    /\ watchOn = FALSE
    /\ timersOn = {}
    /\ att = [o \in Slots |-> NoAttempt]
    /\ retryTimer = 0
    /\ hist = NoHistory
    /\ aev = NoAcqEvent

NoAuthLog == [op |-> "none", authed |-> TRUE, raised |-> FALSE, requests |-> 0,
              storeSame |-> TRUE, throttleSame |-> TRUE]

\* MyDeliveries.tsx lines 32-38: bookings, selectedBooking, newStatus, updating
NoDeliveriesTab == [list |-> <<>>, selected |-> Null, status |-> "none",
                    newStatus |-> "none", updating |-> FALSE]
NoDriverChange == [from |-> "none", to |-> "none"]
NoDeliveries == [tabs |-> [c \in Clients |-> NoDeliveriesTab],
                 last |-> NoDriverChange]

\* App.tsx lines 158-161: a hook that has not run its effect; no listener
NoHook == [vehicleId |-> Null, eff |-> 0, lat |-> 0]
NoViews == [hook |-> NoHook, listeners |-> {}, nextEff |-> 1, ended |-> {},
            notified |-> {}]

\* no admin call has completed
NoSave == [vehicleId |-> Null, stored |-> Null, driverId |-> Null]
NoAdmin == [deleted |-> {}, lastSave |-> NoSave]

\* MyDeliveries.tsx lines 402-403 and part_000 line 47: nothing loaded, no
\* vehicle selected
NoSelection == [id |-> Null, driverId |-> Null]
NoShop == [c \in Clients |-> [list |-> {}, selected |-> NoSelection,
                              booked |-> FALSE]]

InitAuxVars ==
    /\ views = NoViews
    /\ admin = NoAdmin
    /\ shop = NoShop

InitExtVars ==
    /\ written = [v \in AllVehicleIds |-> NothingWritten]
    /\ InitAcqVars
    /\ authlog = NoAuthLog
    /\ deliveries = NoDeliveries
    /\ InitAuxVars

NoTracking == [exists |-> FALSE, trackingId |-> <<>>]

InitTracking ==
    /\ vehicleTrackingIds = [v \in AllVehicleIds |-> NoTracking]
    /\ tlog = <<>>

InitAssign ==
    /\ \E s \in ConsistentStores : vehicles = s.vs /\ users = s.us
    /\ authed = TRUE
    /\ proc = [c \in Clients |-> Idle]
    /\ issued = {}
    /\ log = <<>>
    /\ bookings = [b \in 1..MaxBookings |-> NoBooking]
    /\ InitTracking
    /\ InitSessionVars
    /\ InitExtVars

(* Non-overlapping calls: a call starts only when no call is in flight. *)
SeqAssignCall ==
    \E c \in Clients, v \in AllVehicleIds, d \in AllUserIds \cup {Null} :
        /\ AllIdle
        /\ AssignDriverCall(c, v, d)
        /\ UNCHANGED issued
        /\ UNCHANGED <<bookingVars, trackVars, sessionVars, extVars>>

SeqAssignStep == \E c \in Clients : AssignStep(c) /\ UNCHANGED <<bookingVars, trackVars, sessionVars, extVars>>

SeqNext == SeqAssignCall \/ SeqAssignStep

SeqSpec == InitAssign /\ [][SeqNext]_vars

(* Two admins, one call each, free to interleave. *)
RaceAssignCall ==
    \E c \in Clients, v \in AllVehicleIds, d \in AllUserIds \cup {Null} :
        /\ c \notin issued
        /\ AssignDriverCall(c, v, d)
        /\ issued' = issued \cup {c}
        /\ UNCHANGED <<bookingVars, trackVars, sessionVars, extVars>>

RaceAssignStep == \E c \in Clients : AssignStep(c) /\ UNCHANGED <<bookingVars, trackVars, sessionVars, extVars>>

RaceNext == RaceAssignCall \/ RaceAssignStep

RaceSpec == InitAssign /\ [][RaceNext]_vars

----------------------------------------------------------------------------
(* Claims about vehicleService.assignDriver *)

VehiclesOf(d) == {v \in AllVehicleIds : vehicles[v].driverId = d}

\* the last two successful calls moved one driver between two vehicles
SameDriverTwice ==
    /\ Len(log) = 2
    /\ log[1].driverId \in DriverIds
    /\ log[2].driverId = log[1].driverId
    /\ log[2].vehicleId # log[1].vehicleId

\* C1: after any sequence of non-overlapping successful assignDriver calls on
\* a consistent store, v.driverId = d exactly when d.assignedVehicleId = v.
C1_LinksConsistentBetweenCalls ==
    AllIdle => LinkConsistent(vehicles, users)

\* a call has replaced a vehicle's driver by another driver, and has returned
C1_Witness ==
    /\ AllIdle
    /\ Len(log) = 2
    /\ log[1].vehicleId = log[2].vehicleId
    /\ log[1].driverId \in DriverIds
    /\ log[2].driverId \in DriverIds
    /\ log[1].driverId # log[2].driverId
    /\ vehicles[log[2].vehicleId].driverId = log[2].driverId
    /\ users[log[1].driverId].assignedVehicleId = Null

\* C2: with non-overlapping calls, in every store state (also between the
\* writes of one call) at most one vehicle has driverId = X; and after
\* assign(A, X) then assign(B, X): A.driverId is null, B.driverId is X and
\* X.assignedVehicleId is B.
C2_DriverOnAtMostOneVehicle ==
    /\ \A d \in DriverIds : Cardinality(VehiclesOf(d)) <= 1
    /\ (AllIdle /\ SameDriverTwice) =>
          /\ vehicles[log[1].vehicleId].driverId = Null
          /\ vehicles[log[2].vehicleId].driverId = log[2].driverId
          /\ users[log[2].driverId].assignedVehicleId = log[2].vehicleId
          /\ VehiclesOf(log[2].driverId) = {log[2].vehicleId}

\* assign(A, X) then assign(B, X) have both returned
C2_Witness ==
    /\ AllIdle
    /\ SameDriverTwice
    /\ vehicles[log[2].vehicleId].driverId = log[2].driverId

\* a state between the writes of the second call: A is cleared, B not yet set
C2_WitnessMidCall ==
    /\ \E c \in Clients :
          /\ proc[c].op = "assignDriver"
          /\ proc[c].pc = "setVehicle"
          /\ proc[c].driverId \in DriverIds
          /\ proc[c].assigned # Null
          /\ proc[c].assigned # proc[c].vehicleId
          /\ VehiclesOf(proc[c].driverId) = {}

\* two calls, one per client, have both returned successfully and targeted
\* the same driver X toward two different vehicles A and B
RaceDone ==
    /\ issued = Clients
    /\ AllIdle
    /\ SameDriverTwice

\* C3: when two assignDriver calls for the same driver X toward vehicles A
\* and B interleave, both can succeed and leave A.driverId = B.driverId = X
\* for good, with X.assignedVehicleId naming only one of them (the witness);
\* in every outcome of such a race X.assignedVehicleId names A or B and that
\* vehicle names X back, so the damage is exactly the stale second link.
C3_RaceLeavesStaleLink ==
    RaceDone =>
        /\ users[log[1].driverId].assignedVehicleId \in
              {log[1].vehicleId, log[2].vehicleId}
        /\ vehicles[users[log[1].driverId].assignedVehicleId].driverId = log[1].driverId
        /\ VehiclesOf(log[1].driverId) \subseteq {log[1].vehicleId, log[2].vehicleId}

\* both calls returned and both vehicles name X: the invariant is broken and
\* no step is left that could repair it
C3_Witness ==
    /\ RaceDone
    /\ vehicles[log[1].vehicleId].driverId = log[1].driverId
    /\ vehicles[log[2].vehicleId].driverId = log[1].driverId
    /\ ~LinkConsistent(vehicles, users)

----------------------------------------------------------------------------
(* bookingService, paymentService.savePayment and the availability flag *)

BookingIds == 1..MaxBookings
BookedVehicleIds == 1..NumBookedVehicles

Statuses == {"pending_payment", "pending", "in_progress",
             "completed", "cancelled", "converted"}
\* Partial<Booking> without a status field
NoStatus == "none"
PaymentStatuses == {"pending", "success", "failed"}

\* markVehicleAsInUse / markVehicleAsAvailable: update(vehicleRef, {available, updatedAt})
MarkVehicle(vs, v, a) ==
    [vs EXCEPT ![v] = [@ EXCEPT !.exists = TRUE, !.available = a]]

\* line 593: the statuses whose update frees the vehicle
RestoresAvailabilityCompletedOnly(status) == status = "completed"
RestoresAvailability(status) == status = "completed" \/ status = "cancelled"

\* lines 481-492: the status written to the booking by a recorded payment
PaymentSetsStatus(payStatus) == payStatus = "success"

\* push(ref(database, 'bookings')): a key no booking has
FreshBookingId == CHOOSE b \in BookingIds :
    /\ ~bookings[b].exists
    /\ \A x \in BookingIds : ~bookings[x].exists => b <= x

\* lines 541-567: the booking is stored in pending_payment
CreateBookingCall(c, vehicleId) ==
    /\ proc[c].op = "idle"
    /\ \E b \in BookingIds : ~bookings[b].exists
    /\ bookings' = [bookings EXCEPT ![FreshBookingId] =
                      [exists |-> TRUE, vehicleId |-> vehicleId,
                       status |-> "pending_payment"]]
    /\ proc' = [proc EXCEPT ![c] =
                  [op |-> "createBooking", pc |-> "markInUse",
                   bookingId |-> FreshBookingId, vehicleId |-> vehicleId,
                   status |-> "pending_payment"]]
    /\ UNCHANGED vehicles

\* lines 569-573: markVehicleAsInUse(bookingData.vehicleId); return
CreateBookingMarkInUse(c) ==
    /\ proc[c].op = "createBooking" /\ proc[c].pc = "markInUse"
    /\ vehicles' = MarkVehicle(vehicles, proc[c].vehicleId, "false")
    /\ proc' = [proc EXCEPT ![c] = Idle]
    /\ UNCHANGED bookings

\* lines 576-578: updateBooking(bookingId, updates)
UpdateBookingCall(c, bookingId, status) ==
    /\ proc[c].op = "idle"
    /\ proc' = [proc EXCEPT ![c] =
                  [op |-> "updateBooking", pc |-> "getBooking",
                   bookingId |-> bookingId, status |-> status,
                   vehicleId |-> Null, via |-> "updateBooking"]]
    /\ UNCHANGED <<vehicles, bookings>>

\* lines 579-582: get(bookingRef); throws when the booking is absent
UpdateBookingGet(c) ==
    /\ proc[c].op = "updateBooking" /\ proc[c].pc = "getBooking"
    /\ IF ~bookings[proc[c].bookingId].exists
       THEN /\ proc' = [proc EXCEPT ![c] = Idle]
       ELSE /\ proc' = [proc EXCEPT ![c] =
                  [@ EXCEPT !.pc = "update",
                            !.vehicleId = bookings[proc[c].bookingId].vehicleId]]
    /\ UNCHANGED <<vehicles, bookings>>

\* lines 585-593: update(bookingRef, updateData); then the availability test
UpdateBookingWrite(c) ==
    /\ proc[c].op = "updateBooking" /\ proc[c].pc = "update"
    /\ bookings' = [bookings EXCEPT ![proc[c].bookingId] =
                      [@ EXCEPT !.exists = TRUE,
                                !.status = IF proc[c].status = NoStatus
                                           THEN @ ELSE proc[c].status]]
    /\ IF RestoresAvailability(proc[c].status) /\ proc[c].vehicleId # Null
       THEN /\ proc' = [proc EXCEPT ![c].pc = "markAvailable"]
       ELSE /\ proc' = [proc EXCEPT ![c] = Idle]
    /\ UNCHANGED vehicles

\* line 594: markVehicleAsAvailable(current.vehicleId); return
UpdateBookingMarkAvailable(c) ==
    /\ proc[c].op = "updateBooking" /\ proc[c].pc = "markAvailable"
    /\ vehicles' = MarkVehicle(vehicles, proc[c].vehicleId, "true")
    /\ proc' = [proc EXCEPT ![c] = Idle]
    /\ UNCHANGED bookings

\* lines 444-475: the payment record is stored (payments/{userId} is not
\* part of the model); payment.bookingId names the booking
SavePaymentCall(c, bookingId, payStatus) ==
    /\ proc[c].op = "idle"
    /\ proc' = [proc EXCEPT ![c] =
                  [op |-> "savePayment", pc |-> "getBooking",
                   bookingId |-> bookingId, status |-> payStatus]]
    /\ UNCHANGED <<vehicles, bookings>>

\* lines 475-477: get(bookingRef)
SavePaymentGet(c) ==
    /\ proc[c].op = "savePayment" /\ proc[c].pc = "getBooking"
    /\ IF ~bookings[proc[c].bookingId].exists
       THEN /\ proc' = [proc EXCEPT ![c] = Idle]
       ELSE /\ proc' = [proc EXCEPT ![c].pc = "update"]
    /\ UNCHANGED <<vehicles, bookings>>

\* lines 480-498: update(bookingRef, bookingUpdate); return
SavePaymentUpdate(c) ==
    /\ proc[c].op = "savePayment" /\ proc[c].pc = "update"
    /\ bookings' = [bookings EXCEPT ![proc[c].bookingId] =
                      [@ EXCEPT !.exists = TRUE,
                                !.status = IF PaymentSetsStatus(proc[c].status)
                                           THEN "pending" ELSE @]]
    /\ proc' = [proc EXCEPT ![c] = Idle]
    /\ UNCHANGED vehicles

\* lines 647-649: getBookingById; throws when the booking is absent
ConvertToShipmentCall(c, bookingId) ==
    /\ proc[c].op = "idle"
    /\ IF ~bookings[bookingId].exists
       THEN UNCHANGED proc
       ELSE proc' = [proc EXCEPT ![c] =
                  [op |-> "convertToShipment", pc |-> "createShipment",
                   bookingId |-> bookingId, status |-> "converted"]]
    /\ UNCHANGED <<vehicles, bookings>>

\* lines 651-675: createShipment (shipments/{id} is not part of the model),
\* then updateBooking(bookingId, {status: 'converted', shipmentId})
ConvertCreateShipment(c) ==
    /\ proc[c].op = "convertToShipment" /\ proc[c].pc = "createShipment"
    /\ proc' = [proc EXCEPT ![c] =
                  [op |-> "updateBooking", pc |-> "getBooking",
                   bookingId |-> proc[c].bookingId, status |-> "converted",
                   vehicleId |-> Null, via |-> "convertToShipment"]]
    /\ UNCHANGED <<vehicles, bookings>>

BookingStep(c) ==
    \/ CreateBookingMarkInUse(c)
    \/ UpdateBookingGet(c)
    \/ UpdateBookingWrite(c)
    \/ UpdateBookingMarkAvailable(c)
    \/ SavePaymentGet(c)
    \/ SavePaymentUpdate(c)
    \/ ConvertCreateShipment(c)

InitBooking ==
    /\ vehicles = InitVehicles
    /\ users = InitUsers
    /\ authed = TRUE
    /\ proc = [c \in Clients |-> Idle]
    /\ issued = {}
    /\ log = <<>>
    /\ bookings = [b \in BookingIds |-> NoBooking]
    /\ InitTracking
    /\ InitSessionVars
    /\ InitExtVars

(* Calls do not overlap; the states between the writes of a call are states. *)
SeqCreateBooking ==
    \E c \in Clients, v \in BookedVehicleIds :
        AllIdle /\ CreateBookingCall(c, v) /\ UNCHANGED <<assignOnlyVars, trackVars, sessionVars, extVars>>

SeqUpdateBooking ==
    \E c \in Clients, b \in BookingIds, st \in Statuses \cup {NoStatus} :
        AllIdle /\ UpdateBookingCall(c, b, st) /\ UNCHANGED <<assignOnlyVars, trackVars, sessionVars, extVars>>

SeqSavePayment ==
    \E c \in Clients, b \in BookingIds, ps \in PaymentStatuses :
        AllIdle /\ SavePaymentCall(c, b, ps) /\ UNCHANGED <<assignOnlyVars, trackVars, sessionVars, extVars>>

SeqConvertToShipment ==
    \E c \in Clients, b \in BookingIds :
        AllIdle /\ ConvertToShipmentCall(c, b) /\ UNCHANGED <<assignOnlyVars, trackVars, sessionVars, extVars>>

SeqBookingStep ==
    \E c \in Clients : BookingStep(c) /\ UNCHANGED <<assignOnlyVars, trackVars, sessionVars, extVars>>

BookingNext ==
    \/ SeqCreateBooking
    \/ SeqUpdateBooking
    \/ SeqSavePayment
    \/ SeqConvertToShipment
    \/ SeqBookingStep

BookingSpec == InitBooking /\ [][BookingNext]_vars

----------------------------------------------------------------------------
(* Claims about the availability flag *)

NonTerminal == {"pending_payment", "pending", "in_progress"}

\* client c's call returns in this step without having thrown
ReturnsOk(c, op) ==
    /\ proc[c].op = op
    /\ proc'[c].op = "idle"
    /\ ~(proc[c].pc = "getBooking" /\ ~bookings[proc[c].bookingId].exists)

\* C4: createBooking for V sets V.available to false; updateBooking with
\* status completed or cancelled sets the booking's vehicle available;
\* updateBooking with any other status, or none, writes no vehicle record.
C4_AvailabilityLifecycle ==
    [][\A c \in Clients :
        /\ ReturnsOk(c, "createBooking") =>
              vehicles'[proc[c].vehicleId].available = "false"
        /\ (ReturnsOk(c, "updateBooking")
              /\ proc[c].status \in {"completed", "cancelled"}) =>
              vehicles'[bookings'[proc[c].bookingId].vehicleId].available = "true"
        /\ (proc[c].op = "updateBooking"
              /\ proc[c].status \notin {"completed", "cancelled"}
              /\ proc'[c] # proc[c]) =>
              vehicles' = vehicles
      ]_vars

\* a cancelling update has returned and freed the vehicle that the booking's
\* creation had marked in use
C4_Witness ==
    /\ AllIdle
    /\ \E b \in BookingIds :
          /\ bookings[b].status = "cancelled"
          /\ vehicles[bookings[b].vehicleId].available = "true"
          /\ \A x \in BookingIds \ {b} : ~bookings[x].exists

\* C5: every vehicle with available = false is referenced by a booking whose
\* status is not completed, cancelled or converted (stated between calls).
C5_UnavailableHasActiveBooking ==
    AllIdle =>
        \A v \in AllVehicleIds :
            vehicles[v].available = "false" =>
                \E b \in BookingIds :
                    /\ bookings[b].exists
                    /\ bookings[b].vehicleId = v
                    /\ bookings[b].status \in NonTerminal

----------------------------------------------------------------------------
(* Tracking identity: generateConsistentTrackingId, getOrCreateTrackingId *)

\* the store key of vehicle v as a string of char codes, shaped like a push
\* key: "-Oab_<v>zKq2"
IdString(v) == <<45, 79, 97, 98, 95, 48 + (v % 10), 122, 75, 113, 50>>

\* hash = ((hash << 5) - hash) + charCode; hash = hash & hash
\* on the 32-bit pattern of hash, kept as two 16-bit halves
HashStep(h, ch) ==
    LET lo2 == 31 * h.lo + ch
        hi2 == 31 * h.hi + (lo2 \div 65536)
    IN  [hi |-> hi2 % 65536, lo |-> lo2 % 65536]

RECURSIVE HashFrom(_, _, _)
HashFrom(h, str, i) ==
    IF i > Len(str) THEN h ELSE HashFrom(HashStep(h, str[i]), str, i + 1)

\* Math.abs(hash % 10000) of the signed 32-bit value with pattern h
HashDigits(h) ==
    LET um == ((h.hi % 10000) * 5536 + h.lo) % 10000
    IN  IF h.hi >= 32768 THEN (7296 - um + 10000) % 10000 ELSE um

IsAlnum(ch) ==
    \/ ch \in 48..57
    \/ ch \in 65..90
    \/ ch \in 97..122

ToUpper(ch) == IF ch \in 97..122 THEN ch - 32 ELSE ch

\* vehicleId.replace(/[^a-zA-Z0-9]/g, '').substring(0, 4).toUpperCase()
ShortId(str) ==
    LET alnum == SelectSeq(str, IsAlnum)
        n == IF Len(alnum) < 4 THEN Len(alnum) ELSE 4
    IN  [i \in 1..n |-> ToUpper(alnum[i])]

\* n.toString().padStart(4, '0')
PadStart4(n) ==
    <<48 + (n \div 1000), 48 + ((n \div 100) % 10),
      48 + ((n \div 10) % 10), 48 + (n % 10)>>

\* the code of every vehicle id, computed once: the function is pure
ConsistentTrackingIds ==
    [v \in AllVehicleIds |->
        ShortId(IdString(v)) \o
            PadStart4(HashDigits(HashFrom([hi |-> 0, lo |-> 0], IdString(v), 1)))]

GenerateConsistentTrackingId(v) == ConsistentTrackingIds[v]

\* line 81: snapshot.exists() decides between reuse and creation
MustCreateAlways(rec) == TRUE
MustCreate(rec) == ~rec.exists

\* lines 101-105: the catch block returns the locally computed code
FallbackTrackingIdOfClock(v) == <<48 + clock>>
FallbackTrackingId(v) == GenerateConsistentTrackingId(v)

\* getOrCreateTrackingId(vehicleId) on the records tids: the id returned,
\* the records afterwards, whether a record was written, and whether the
\* catch block (read or write error, or requireAuth throwing) was taken
GetOrCreateTrackingId(tids, v, isAuthed, readOk, writeOk) ==
    LET generated == GenerateConsistentTrackingId(v)
        fallback == [trackingId |-> FallbackTrackingId(v), tids |-> tids,
                     wrote |-> FALSE, caught |-> TRUE]
    IN  IF ~readOk THEN fallback
        ELSE IF ~MustCreate(tids[v])
        THEN [trackingId |-> tids[v].trackingId, tids |-> tids,
              wrote |-> FALSE, caught |-> FALSE]
        ELSE IF ~isAuthed \/ ~writeOk THEN fallback
        ELSE [trackingId |-> generated,
              tids |-> [tids EXCEPT ![v] =
                          [exists |-> TRUE, trackingId |-> generated]],
              wrote |-> TRUE, caught |-> FALSE]

InitTrack ==
    /\ vehicles = InitVehicles
    /\ users = InitUsers
    /\ authed \in BOOLEAN
    /\ proc = [c \in Clients |-> Idle]
    /\ issued = {}
    /\ log = <<>>
    /\ bookings = [b \in BookingIds |-> NoBooking]
    /\ InitTracking
    /\ InitSessionVars
    /\ InitExtVars

trackFrame == <<vehicles, users, proc, issued, log, bookings, extVars>>

\* one call of getOrCreateTrackingId; the store may fail its read or write
TrackCall ==
    \E v \in VehicleIds, readOk \in BOOLEAN, writeOk \in BOOLEAN :
        LET r == GetOrCreateTrackingId(vehicleTrackingIds, v, authed, readOk, writeOk)
            e == [vehicleId |-> v, trackingId |-> r.trackingId,
                  wrote |-> r.wrote, caught |-> r.caught]
            l == Append(tlog, e)
        IN  /\ vehicleTrackingIds' = r.tids
            /\ tlog' = IF Len(l) > 2 THEN Tail(l) ELSE l
            /\ UNCHANGED <<authed, trackFrame, sessionVars>>

\* the identity provider signs the user in or out
AuthChange ==
    /\ authed' = ~authed
    /\ UNCHANGED <<vehicleTrackingIds, tlog, trackFrame, sessionVars>>

\* deleteVehicle, lines 217-221: an intervening change of the store
TrackDeleteVehicle ==
    \E v \in VehicleIds :
        /\ authed
        /\ vehicles' = [vehicles EXCEPT ![v] = AbsentVehicle]
        /\ vehicleTrackingIds' = [vehicleTrackingIds EXCEPT ![v] = NoTracking]
        /\ vehicleLocations' = [vehicleLocations EXCEPT ![v] = NoLocationRecord]
        /\ tlog' = <<>>
        /\ UNCHANGED <<authed, users, proc, issued, log, bookings, clock, phase,
                       vehicleIdRef, lastUpdateRef, lastLocationRef, ev, scen, faults,
                       extVars>>

TrackNext == TrackCall \/ AuthChange \/ TrackDeleteVehicle

TrackSpec == InitTrack /\ [][TrackNext]_vars

----------------------------------------------------------------------------
(* Driver session: DriverLocationUpdater and locationService.updateLocation *)

MaxTicks == 6
MaxFaults == 1
TickMs == 1000
SessionStartMs == 1000000
SessionLng == 77

ThrottleMs == 5000
GpsMinDistance == 10
IpMinDistance == 100
OneShotMaxAccuracy == 100
WatchMaxAccuracy == 50
Infinity == 1000000000

\* the driver whose device runs the session
SessionDriver == CHOOSE d \in DriverIds : \A e \in DriverIds : d <= e

\* latitudes of the readings, in metres of arc north of the equator; every
\* reading lies on the meridian SessionLng
Lats == {0, 5, 8, 18, 33}
Accuracies == {40, 50, 100, 150}

\* Date.now() on the driver's device
Now == SessionStartMs + clock * TickMs

Abs(x) == IF x < 0 THEN -x ELSE x

\* lines 22-33: the haversine great-circle distance in metres; between two
\* points of one meridian it is the length of the arc between them
HaversineMetres(lat1, lon1, lat2, lon2) == Abs(lat2 - lat1)

\* line 20: !lat1 || !lon1 || !lat2 || !lon2 holds for a coordinate of 0
Falsy(x) == x = 0

calculateDistance(lat1, lon1, lat2, lon2) ==
    IF Falsy(lat1) \/ Falsy(lon1) \/ Falsy(lat2) \/ Falsy(lon2)
    THEN Infinity
    ELSE HaversineMetres(lat1, lon1, lat2, lon2)

\* line 48: the time gate
TimeGateRejectsForced(forceUpdate, now, lastUpdate) ==
    now - lastUpdate < ThrottleMs
TimeGateRejectsOneSecond(forceUpdate, now, lastUpdate) ==
    ~forceUpdate /\ now - lastUpdate < TickMs
TimeGateRejects(forceUpdate, now, lastUpdate) ==
    ~forceUpdate /\ now - lastUpdate < ThrottleMs

\* line 62
MinDistance(source) == IF source = "gps" THEN GpsMinDistance ELSE IpMinDistance

\* lines 53-67: the distance gate
DistanceGateRejects(forceUpdate, last, lat, lng, source) ==
    /\ last.set
    /\ ~forceUpdate
    /\ calculateDistance(last.lat, last.lng, lat, lng) < MinDistance(source)

\* line 198: the one-shot callback keeps a reading unless accuracy > 100
OneShotAcceptsBelow(accuracy) == accuracy < OneShotMaxAccuracy
OneShotAccepts(accuracy) == ~(accuracy > OneShotMaxAccuracy)

\* line 310: the watch callback keeps a reading when accuracy < 50
WatchAccepts(accuracy) == accuracy < WatchMaxAccuracy

\* lines 111-136: cached id, else the signed-in user's assignedVehicleId,
\* else the first vehicle whose driverId is the user
GetAssignedVehicle ==
    IF vehicleIdRef # Null THEN vehicleIdRef
    ELSE IF users[SessionDriver].assignedVehicleId # Null
    THEN users[SessionDriver].assignedVehicleId
    ELSE LET mine == {v \in AllVehicleIds :
                        vehicles[v].exists /\ vehicles[v].driverId = SessionDriver}
         IN  IF mine = {} THEN Null
             ELSE CHOOSE v \in mine : \A w \in mine : v <= w

\* locationService.updateLocation, lines 326-369
ServiceUpdateLocation(vehicleId, lat, lng, forceUpdate, previousLocation, readOk, writeOk, locOk) ==
    LET r == GetOrCreateTrackingId(vehicleTrackingIds, vehicleId, authed,
                                   readOk, writeOk)
        shouldUpdate == forceUpdate \/ TRUE
        tooClose ==
            /\ ~shouldUpdate
            /\ previousLocation.set
            /\ calculateDistance(previousLocation.lat, previousLocation.lng,
                                 lat, lng) < GpsMinDistance
        record == [exists |-> TRUE, lat |-> lat, lng |-> lng,
                   timestamp |-> Now, trackingId |-> r.trackingId]
    IN  IF ~authed
        THEN [threw |-> TRUE, updated |-> FALSE,
              tids |-> vehicleTrackingIds, locs |-> vehicleLocations]
        ELSE IF tooClose
        THEN [threw |-> FALSE, updated |-> FALSE,
              tids |-> r.tids, locs |-> vehicleLocations]
        ELSE IF ~locOk
        THEN [threw |-> TRUE, updated |-> FALSE,
              tids |-> r.tids, locs |-> vehicleLocations]
        ELSE [threw |-> FALSE, updated |-> TRUE, tids |-> r.tids,
              locs |-> [vehicleLocations EXCEPT ![vehicleId] = record]]

\* the readings of the throttle scenario arrive 0, 1000, 4000 and 6000 ms
\* after the session's first reading
ScenarioMs == <<0, 1000, 4000, 6000>>

ScenNext(s, lat, lng, forceUpdate, admitted) ==
    LET k == s.n + 1
        adm == IF admitted THEN {k} ELSE {}
    IN  IF s.n = -1 \/ s.n = Len(ScenarioMs) THEN s
        ELSE IF forceUpdate THEN ScenOff
        ELSE IF s.n = 0
        THEN [n |-> 1, t0 |-> Now, prev |-> lat, okPrev |-> TRUE,
              okLast |-> TRUE, adm |-> adm]
        ELSE IF Now - s.t0 # ScenarioMs[k] THEN ScenOff
        ELSE [n |-> k,
              t0 |-> IF k = Len(ScenarioMs) THEN 0 ELSE s.t0,
              prev |-> IF k = Len(ScenarioMs) THEN 0 ELSE lat,
              okPrev |-> s.okPrev /\ HaversineMetres(s.prev, lng, lat, lng)
                                        >= GpsMinDistance,
              okLast |-> s.okLast /\
                         (lastLocationRef.set =>
                            HaversineMetres(lastLocationRef.lat,
                                            lastLocationRef.lng, lat, lng)
                                >= GpsMinDistance),
              adm |-> s.adm \cup adm]

\* ev keeps, of the last reading: which callback delivered it, its accuracy,
\* whether it reached updateLocation, whether it came less than ThrottleMs
\* after the last admitted one, how far it lies from the last admitted
\* position, its latitude if it was admitted, whether the store refused the
\* write, and what became of it.
\* the record kept of a reading that never reached updateLocation
DroppedEvent(kind, accuracy) ==
    [kind |-> kind, lat |-> 0, acc |-> accuracy, force |-> FALSE,
     source |-> "gps", forwarded |-> FALSE, early |-> FALSE,
     dist |-> "first", refused |-> FALSE, outcome |-> "dropped"]

\* the store serves the requests of a call or fails them (trackOk: those on
\* vehicleTrackingIds, locOk: the write of vehicleLocations); a rejected
\* reading makes no request, and at most MaxFaults calls of a session fail
StoreAnswers(asked) == IF asked /\ faults < MaxFaults THEN BOOLEAN ELSE {TRUE}

\* updateLocation(vehicleId, latitude, longitude, source, forceUpdate),
\* lines 36-109, with the service call it awaits
UpdateLocation(kind, vehicleId, lat, lng, source, forceUpdate, accuracy) ==
    LET byTime == TimeGateRejects(forceUpdate, Now, lastUpdateRef)
        byDistance == DistanceGateRejects(forceUpdate, lastLocationRef,
                                          lat, lng, source)
        admitted == ~byTime /\ ~byDistance
    IN
    \E trackOk \in StoreAnswers(admitted), locOk \in StoreAnswers(admitted) :
        LET
            previousLocation ==
                IF vehicleLocations[vehicleId].exists
                THEN Point(vehicleLocations[vehicleId].lat,
                           vehicleLocations[vehicleId].lng)
                ELSE NoPoint
            res == ServiceUpdateLocation(vehicleId, lat, lng,
                                         forceUpdate \/ source = "ip",
                                         previousLocation, trackOk, trackOk, locOk)
            moved == HaversineMetres(lastLocationRef.lat, lastLocationRef.lng,
                                     lat, lng)
            e == [kind |-> kind, lat |-> IF admitted THEN lat ELSE 0,
                  acc |-> accuracy,
                  force |-> forceUpdate, source |-> source, forwarded |-> TRUE,
                  early |-> Now - lastUpdateRef < ThrottleMs,
                  dist |-> IF ~lastLocationRef.set THEN "first"
                           ELSE IF moved = 0 THEN "none"
                           ELSE IF moved < MinDistance(source) THEN "below"
                           ELSE "enough",
                  refused |-> admitted /\ (~authed \/ ~locOk),
                  outcome |-> IF byTime THEN "skipped_time"
                              ELSE IF byDistance THEN "skipped_distance"
                              ELSE IF res.updated THEN "written"
                              ELSE "failed"]
        IN  /\ ev' = e
            /\ scen' = ScenNext(scen, lat, lng, forceUpdate, admitted)
            /\ faults' = IF trackOk /\ locOk THEN faults ELSE faults + 1
            /\ IF admitted
               THEN /\ lastUpdateRef' = Now
                    /\ lastLocationRef' = Point(lat, lng)
                    /\ vehicleTrackingIds' = res.tids
                    /\ vehicleLocations' = res.locs
               ELSE UNCHANGED <<lastUpdateRef, lastLocationRef,
                               vehicleTrackingIds, vehicleLocations>>

sessionFrame == <<vehicles, users, authed, proc, issued, log, bookings, tlog,
                  extVars>>

\* time passes on the driver's device
Tick ==
    /\ clock < MaxTicks
    /\ clock' = clock + 1
    /\ UNCHANGED <<vehicleLocations, phase, vehicleIdRef, lastUpdateRef,
                   lastLocationRef, ev, scen, faults, vehicleTrackingIds,
                   sessionFrame>>

\* initializeLocationSharing, lines 346-351: resolve the vehicle or give up
StartSession ==
    /\ phase = "mounted"
    /\ vehicleIdRef' = GetAssignedVehicle
    /\ phase' = IF GetAssignedVehicle = Null THEN "disabled" ELSE "sharing"
    /\ UNCHANGED <<vehicleLocations, clock, lastUpdateRef, lastLocationRef,
                   ev, scen, faults, vehicleTrackingIds, sessionFrame>>

\* handleGeolocationSuccess(position, 'gps'), lines 191-204, called by the
\* getCurrentPosition success callback
GpsOneShotPosition ==
    \E accuracy \in Accuracies :
        /\ phase = "sharing"
        /\ GetAssignedVehicle # Null
        /\ IF OneShotAccepts(accuracy)
           THEN \E lat \in Lats :
                    UpdateLocation("oneshot", GetAssignedVehicle, lat, SessionLng,
                                   "gps", FALSE, accuracy)
           ELSE /\ ev' = DroppedEvent("oneshot", accuracy)
                /\ UNCHANGED <<scen, faults, lastUpdateRef, lastLocationRef,
                               vehicleTrackingIds, vehicleLocations>>
        /\ UNCHANGED <<clock, phase, vehicleIdRef, sessionFrame>>

\* the watchPosition success callback, lines 309-313, and the
\* handleGeolocationSuccess(position, 'watch') it calls
GpsWatchPosition ==
    \E accuracy \in Accuracies :
        /\ phase = "sharing"
        /\ GetAssignedVehicle # Null
        /\ IF WatchAccepts(accuracy)
           THEN \E lat \in Lats :
                    UpdateLocation("watch", GetAssignedVehicle, lat, SessionLng,
                                   "gps", FALSE, accuracy)
           ELSE /\ ev' = DroppedEvent("watch", accuracy)
                /\ UNCHANGED <<scen, faults, lastUpdateRef, lastLocationRef,
                               vehicleTrackingIds, vehicleLocations>>
        /\ UNCHANGED <<clock, phase, vehicleIdRef, sessionFrame>>

\* lines 367-370 and 387-391: an IP-derived position is written with force
IpFallbackUpdate ==
    \E lat \in Lats :
        /\ phase = "sharing"
        /\ UpdateLocation("ip", vehicleIdRef, lat, SessionLng, "ip", TRUE, 0)
        /\ UNCHANGED <<clock, phase, vehicleIdRef, sessionFrame>>

\* lines 402-414: the 30 s safety interval rewrites the last position
SafetyRefresh ==
    \E source \in {"gps", "ip"} :
        /\ phase = "sharing"
        /\ GetAssignedVehicle # Null
        /\ lastLocationRef.set
        /\ UpdateLocation("safety", GetAssignedVehicle, lastLocationRef.lat,
                          lastLocationRef.lng, source, TRUE, 0)
        /\ UNCHANGED <<clock, phase, vehicleIdRef, sessionFrame>>

\* the driver signs in with or without an assigned vehicle
InitSession ==
    /\ \E v \in {Null, 1} :
        /\ users = [InitUsers EXCEPT ![SessionDriver].assignedVehicleId = v]
        /\ vehicles = [w \in AllVehicleIds |->
                         IF w = v THEN [InitVehicles[w] EXCEPT !.driverId = SessionDriver]
                         ELSE InitVehicles[w]]
    /\ authed = TRUE
    /\ proc = [c \in Clients |-> Idle]
    /\ issued = {}
    /\ log = <<>>
    /\ bookings = [b \in BookingIds |-> NoBooking]
    /\ InitTracking
    /\ InitSessionVars
    /\ InitExtVars

SessionNext ==
    \/ Tick
    \/ StartSession
    \/ GpsOneShotPosition
    \/ GpsWatchPosition
    \/ IpFallbackUpdate
    \/ SafetyRefresh

SessionSpec == InitSession /\ [][SessionNext]_vars

----------------------------------------------------------------------------
(* Claims about the throttler and the accuracy filter *)

Throttled == ev.kind # "none" /\ ev.forwarded
Admitted == Throttled /\ ev.outcome \in {"written", "failed"}

\* C6 as stated: a non-force reading is admitted only if at least 5000 ms
\* have passed since the last admitted one, and of four non-force readings at
\* 0, 1000, 4000 and 6000 ms, each at least 10 m from the reading before it,
\* exactly the first and the fourth are admitted.
C6_ScenarioByPreviousReading ==
    /\ (Admitted /\ ~ev.force) => ~ev.early
    /\ (scen.n = Len(ScenarioMs) /\ scen.okPrev) => scen.adm = {1, 4}

\* C6 amended: a non-force reading is admitted only if at least 5000 ms have
\* passed since the last admitted one, and of four non-force readings at 0,
\* 1000, 4000 and 6000 ms, each at least 10 m from the last admitted reading,
\* exactly the first and the fourth are admitted.
C6_TimeGate ==
    /\ (Admitted /\ ~ev.force) => ~ev.early
    /\ (scen.n = Len(ScenarioMs) /\ scen.okLast) => scen.adm = {1, 4}

\* the four readings of the scenario were delivered, each far enough from
\* the last admitted one, and the fourth has just been written
C6_Witness ==
    /\ scen.n = Len(ScenarioMs)
    /\ scen.okLast
    /\ scen.adm = {1, 4}
    /\ ~ev.force /\ ev.dist = "enough" /\ ev.outcome = "written"
    /\ faults = 0
    /\ Now - SessionStartMs = ScenarioMs[Len(ScenarioMs)]

\* C7: a non-force reading that passes the time gate and has a last admitted
\* position to compare with is rejected exactly when its displacement from
\* that position is below the threshold of its source.
C7_DistanceGateExact ==
    (Throttled /\ ~ev.force /\ ~ev.early /\ ev.dist # "first") =>
        (ev.outcome = "skipped_distance" <=> ev.dist \in {"none", "below"})

\* C8: a reading passed with forceUpdate is admitted whatever the time since
\* the last admitted one and whatever its displacement, and unless the store
\* refuses the write the stored record is that reading.
C8_ForceAlwaysWritten ==
    (Throttled /\ ev.force) =>
        /\ Admitted
        /\ lastLocationRef = Point(ev.lat, SessionLng)
        /\ ~ev.refused =>
            /\ ev.outcome = "written"
            /\ vehicleLocations[vehicleIdRef].exists
            /\ vehicleLocations[vehicleIdRef].lat = ev.lat
            /\ vehicleLocations[vehicleIdRef].timestamp = lastUpdateRef

\* a forced reading arrived early and at the last admitted position, and
\* its record is in the store
C8_Witness ==
    /\ Throttled /\ ev.force
    /\ ev.early
    /\ ev.dist = "none"
    /\ ev.outcome = "written"
    /\ vehicleLocations[vehicleIdRef].timestamp = Now

----------------------------------------------------------------------------
(* Claims about the tracking identity *)

TwoCallsSameVehicle ==
    /\ Len(tlog) = 2
    /\ tlog[1].vehicleId = tlog[2].vehicleId

----------------------------------------------------------------------------
(* Concurrent writers: locationService.updateLocation, one step per await *)

MaxLocTicks == 2
NumLocVehicles == 1

LocVehicleIds == 1..NumLocVehicles
LocLats == {5, 18}

\* lines 354-361: locationData is built, with timestamp Date.now(), when the
\* tracking id is known, and the write of line 365 is issued
StampLocation(c, trackingId, caught) ==
    [proc EXCEPT ![c] = [op |-> "updateLocation", pc |-> "setLocation",
                         vehicleId |-> proc[c].vehicleId, lat |-> proc[c].lat,
                         trackingId |-> trackingId, caught |-> caught,
                         timestamp |-> Now]]

\* the record of line 354 as the store keeps it
LocationRecord(f) ==
    [exists |-> TRUE, lat |-> f.lat, lng |-> SessionLng,
     timestamp |-> f.timestamp, trackingId |-> f.trackingId]

\* the history of vehicleLocations/{v} after the commit of frame f
Commit(w, old, f) ==
    [n |-> IF w.n < 2 THEN w.n + 1 ELSE 2,
     first |-> IF w.n = 0 THEN f.trackingId ELSE w.first,
     ids |-> w.ids \cup {f.trackingId},
     fellBack |-> w.fellBack \/ f.caught,
     lat |-> f.lat,
     decreased |-> w.decreased \/ (old.exists /\ f.timestamp < old.timestamp)]

locFrame == <<vehicles, users, authed, issued, log, bookings, tlog, phase,
              vehicleIdRef, lastUpdateRef, lastLocationRef, ev, scen, faults,
              acqVars, authlog, deliveries, auxVars>>

\* line 332: requireAuth(); line 335: getOrCreateTrackingId is entered
LocCall(c, vehicleId, lat) ==
    /\ proc[c].op = "idle"
    /\ authed
    /\ proc' = [proc EXCEPT ![c] = [op |-> "updateLocation", pc |-> "getTracking",
                                    vehicleId |-> vehicleId, lat |-> lat]]
    /\ UNCHANGED <<vehicleTrackingIds, vehicleLocations, written, clock, locFrame>>

\* lines 79-85 and 101-105: the read of vehicleTrackingIds/{vehicleId}
LocGetTracking(c) ==
    /\ proc[c].op = "updateLocation" /\ proc[c].pc = "getTracking"
    /\ \E readOk \in BOOLEAN :
        proc' = IF ~readOk
                THEN StampLocation(c, FallbackTrackingId(proc[c].vehicleId), TRUE)
                ELSE IF ~MustCreate(vehicleTrackingIds[proc[c].vehicleId])
                THEN StampLocation(c, vehicleTrackingIds[proc[c].vehicleId].trackingId,
                                   FALSE)
                ELSE IF ~authed
                THEN StampLocation(c, FallbackTrackingId(proc[c].vehicleId), TRUE)
                ELSE [proc EXCEPT ![c].pc = "setTracking"]
    /\ UNCHANGED <<vehicleTrackingIds, vehicleLocations, written, clock, locFrame>>

\* lines 88-99 and 101-105: the write of vehicleTrackingIds/{vehicleId}
LocSetTracking(c) ==
    /\ proc[c].op = "updateLocation" /\ proc[c].pc = "setTracking"
    /\ \E writeOk \in BOOLEAN :
        IF writeOk
        THEN /\ vehicleTrackingIds' =
                    [vehicleTrackingIds EXCEPT ![proc[c].vehicleId] =
                        [exists |-> TRUE,
                         trackingId |-> GenerateConsistentTrackingId(proc[c].vehicleId)]]
             /\ proc' = StampLocation(c, GenerateConsistentTrackingId(proc[c].vehicleId),
                                      FALSE)
        ELSE /\ proc' = StampLocation(c, FallbackTrackingId(proc[c].vehicleId), TRUE)
             /\ UNCHANGED vehicleTrackingIds
    /\ UNCHANGED <<vehicleLocations, written, clock, locFrame>>

\* line 365: the store commits the write, or refuses it
LocSetLocation(c) ==
    /\ proc[c].op = "updateLocation" /\ proc[c].pc = "setLocation"
    /\ \E locOk \in BOOLEAN :
        IF locOk
        THEN /\ vehicleLocations' = [vehicleLocations EXCEPT ![proc[c].vehicleId] =
                                        LocationRecord(proc[c])]
             /\ written' = [written EXCEPT ![proc[c].vehicleId] =
                              Commit(@, vehicleLocations[proc[c].vehicleId], proc[c])]
        ELSE UNCHANGED <<vehicleLocations, written>>
    /\ proc' = [proc EXCEPT ![c] = Idle]
    /\ UNCHANGED <<vehicleTrackingIds, clock, locFrame>>

\* the clock shared by the writers advances
LocTick ==
    /\ clock < MaxLocTicks
    /\ clock' = clock + 1
    /\ UNCHANGED <<proc, vehicleTrackingIds, vehicleLocations, written, locFrame>>

LocStart == \E c \in Clients, v \in LocVehicleIds, lat \in LocLats : LocCall(c, v, lat)

LocStep ==
    \E c \in Clients :
        \/ LocGetTracking(c)
        \/ LocSetTracking(c)
        \/ LocSetLocation(c)

InitLoc ==
    /\ vehicles = InitVehicles
    /\ users = InitUsers
    /\ authed = TRUE
    /\ proc = [c \in Clients |-> Idle]
    /\ issued = {}
    /\ log = <<>>
    /\ bookings = [b \in BookingIds |-> NoBooking]
    /\ InitTracking
    /\ InitSessionVars
    /\ InitExtVars

LocNext == LocStart \/ LocStep \/ LocTick

LocSpec == InitLoc /\ [][LocNext]_vars

----------------------------------------------------------------------------
(* Claims about concurrent location writers *)

\* C11: every record committed to vehicleLocations/{v} carries one and the
\* same trackingId, also when the resolver fell back to the local code, and
\* the stored record has the coordinates of the latest committed reading
\* and the trackingId of the first committed write.
C11_TrackingIdStable ==
    \A v \in LocVehicleIds :
        /\ Cardinality(written[v].ids) <= 1
        /\ vehicleLocations[v].exists =>
            /\ vehicleLocations[v].trackingId = written[v].first
            /\ vehicleLocations[v].trackingId = GenerateConsistentTrackingId(v)
            /\ vehicleLocations[v].lat = written[v].lat

\* two writes have been committed for a vehicle, one of them with the local
\* fallback code
C11_Witness ==
    \E v \in LocVehicleIds :
        /\ written[v].n = 2
        /\ written[v].fellBack
        /\ vehicleLocations[v].trackingId = written[v].first
        /\ AllIdle

\* C12: the timestamp stored in vehicleLocations/{v} never decreases from
\* one committed write to the next.
C12_TimestampNeverDecreases ==
    \A v \in LocVehicleIds : ~written[v].decreased


----------------------------------------------------------------------------
(* Position acquisition of one driver session, DriverLocationUpdater.tsx:
   the one-shot attempts of tryGPSLocation with their 10 s timers, the
   retry timeouts of handleGeolocationError, the continuous watch, the
   interval timers of initializeLocationSharing and the cleanup of the
   effect.  A timer that is pending may fire at any later step; the
   browser's TIMEOUT error of an attempt (after 15 s) comes after the
   attempt's own 10 s timer.  The steps are followed at one reading of the
   device clock: the throttle over time is the subject of SessionSpec. *)

AcqLats == {5}
AcqAccuracies == {40, 80, 150}
CityDraws == {3}
IpEndpointLat == 33
MaxRetryCount == 2
MaxAttemptsCounted == 3

\* lines 174-180: the latitudes of indianCities, in metres of arc
IndianCities == <<3181722, 2121155, 1442376, 1454730, 1326856>>

\* getIPLocation, lines 139-189: the answer of the first endpoint that
\* reports a latitude, else one of the cities; responses[i] = 0 stands for
\* an endpoint that fails, times out or reports no coordinate
GetIPLocation(responses, city) ==
    IF \E i \in 1..3 : responses[i] # 0
    THEN responses[CHOOSE i \in 1..3 :
                      /\ responses[i] # 0
                      /\ \A j \in 1..3 : responses[j] # 0 => i <= j]
    ELSE IndianCities[city]

IpResponses == [1..3 -> {0, IpEndpointLat}]
IpLocations ==
    {GetIPLocation(r, c) : r \in IpResponses, c \in CityDraws}

\* aev keeps, of the last step of the acquisition: which callback or timer
\* it was, whether it scheduled a retry timeout, whether it started a GPS
\* attempt, whether the session had ended, and whether it wrote a location
AcqEvent(kind, scheduledRetry, startedAttempt, e) ==
    [kind |-> kind, scheduledRetry |-> scheduledRetry,
     startedAttempt |-> startedAttempt, ended |-> ~alive,
     wrote |-> e.kind # "none" /\ e.outcome = "written"]

\* lines 96-105: a GPS-sourced write that the store took ends fallback mode
GpsWritten(e) == e.kind # "none" /\ e.source = "gps" /\ e.outcome = "written"
FallbackAfter(e) == IF GpsWritten(e) THEN FALSE ELSE useFallbackLocation
StatusAfter(e) == IF GpsWritten(e) THEN "acquired" ELSE gpsStatus

\* tryGPSLocation(retryCount), lines 260-292, up to getCurrentPosition
StartAttempt(a, slot, retryCount) ==
    [a EXCEPT ![slot] = [st |-> "pending", retryCount |-> retryCount]]

CountAttempt(h) ==
    [h EXCEPT !.attempts = IF @ < MaxAttemptsCounted THEN @ + 1 ELSE @]

\* what the code that awaits the attempt of a slot does with its result:
\* initializeLocationSharing resumes at line 362
InitResumes(slot, wasPending, result) ==
    IF slot = "init" /\ wasPending /\ initPc = "gps"
    THEN IF result THEN "resolvedTrue" ELSE "resolvedFalse"
    ELSE initPc

acqFrame == <<vehicles, users, authed, proc, issued, log, bookings, tlog,
              written, phase, authlog, deliveries, auxVars>>
storeVars == <<vehicleLocations, vehicleTrackingIds, lastUpdateRef,
               lastLocationRef, ev, scen, faults>>

\* lines 356-360: initializeLocationSharing starts the first attempt
AcqTryGps ==
    /\ phase = "sharing"
    /\ initPc = "idle"
    /\ initPc' = "gps"
    /\ gpsStatus' = "searching"
    /\ att' = StartAttempt(att, "init", 0)
    /\ hist' = CountAttempt(hist)
    /\ aev' = AcqEvent("try", FALSE, TRUE, NoEvent)
    /\ UNCHANGED <<useFallbackLocation, captured, watchOn, timersOn,
                   retryTimer, alive, vehicleIdRef, clock, storeVars, acqFrame>>

\* lines 269-272: the 10 s timer of an attempt resolves its promise to false
GpsTimerFires(slot) ==
    /\ att[slot].st = "pending"
    /\ att' = [att EXCEPT ![slot].st = "timedout"]
    /\ initPc' = InitResumes(slot, TRUE, FALSE)
    /\ aev' = AcqEvent("gpsTimeout", FALSE, FALSE, NoEvent)
    /\ UNCHANGED <<gpsStatus, useFallbackLocation, captured, watchOn, timersOn,
                   retryTimer, hist, alive, vehicleIdRef, clock, storeVars,
                   acqFrame>>

\* lines 275-280: the success callback of getCurrentPosition, with
\* handleGeolocationSuccess (191-204); the awaiting interval callback of
\* lines 377-381 clears the retry interval and starts the watch
GpsSuccess(slot, lat, accuracy) ==
    LET wasPending == att[slot].st = "pending"
        vehicleId == GetAssignedVehicle
    IN  /\ phase = "sharing"
        /\ att[slot].st \in {"pending", "timedout"}
        /\ att' = [att EXCEPT ![slot] = NoAttempt]
        /\ vehicleIdRef' = vehicleId
        /\ IF vehicleId # Null /\ OneShotAccepts(accuracy)
           THEN UpdateLocation("oneshot", vehicleId, lat, SessionLng, "gps",
                               FALSE, accuracy)
           ELSE /\ ev' = DroppedEvent("oneshot", accuracy)
                /\ UNCHANGED <<scen, faults, lastUpdateRef, lastLocationRef,
                               vehicleTrackingIds, vehicleLocations>>
        /\ gpsStatus' = "acquired"
        /\ useFallbackLocation' = FallbackAfter(ev')
        /\ initPc' = InitResumes(slot, wasPending, TRUE)
        /\ IF slot = "tick" /\ wasPending
           THEN /\ timersOn' = timersOn \ {"gpsRetry"}
                /\ watchOn' = TRUE
           ELSE UNCHANGED <<timersOn, watchOn>>
        /\ UNCHANGED hist
        /\ aev' = AcqEvent("success", FALSE, FALSE, ev')
        /\ UNCHANGED <<captured, retryTimer, alive, clock, acqFrame>>

\* lines 209-241: only a TIMEOUT with retryCount < 2 schedules a retry
RetriesAnyError(code, retryCount) == retryCount < MaxRetryCount
Retries(code, retryCount) == code = "timeout" /\ retryCount < MaxRetryCount

\* lines 281-285: the error callback of getCurrentPosition, with
\* handleGeolocationError (206-257)
GpsError(slot, code, ipLat) ==
    LET wasPending == att[slot].st = "pending"
        retryCount == att[slot].retryCount
        vehicleId == GetAssignedVehicle
        retries == Retries(code, retryCount)
    IN  /\ phase = "sharing"
        /\ att[slot].st \in {"pending", "timedout"}
        /\ code = "timeout" => att[slot].st = "timedout"
        /\ retries => /\ retryTimer = 0
                      /\ slot = "retry" \/ att["retry"].st # "pending"
        /\ att' = [att EXCEPT ![slot] = NoAttempt]
        /\ vehicleIdRef' = vehicleId
        /\ gpsStatus' = code
        /\ useFallbackLocation' = IF retries THEN useFallbackLocation ELSE TRUE
        /\ retryTimer' = IF retries THEN retryCount + 1 ELSE retryTimer
        /\ IF ~retries /\ vehicleId # Null
           THEN UpdateLocation("ip", vehicleId, ipLat, SessionLng, "ip", TRUE, 0)
           ELSE /\ ev' = NoEvent
                /\ UNCHANGED <<scen, faults, lastUpdateRef, lastLocationRef,
                               vehicleTrackingIds, vehicleLocations>>
        /\ initPc' = InitResumes(slot, wasPending, FALSE)
        /\ hist' = [hist EXCEPT !.hardError = @ \/ code # "timeout"]
        /\ aev' = AcqEvent(code, retries, FALSE, ev')
        /\ UNCHANGED <<captured, watchOn, timersOn, alive, clock, acqFrame>>

\* lines 242-244: the retry timeout starts the next attempt
RetryTimerFires ==
    /\ retryTimer # 0
    /\ att["retry"].st # "pending"
    /\ att' = StartAttempt(att, "retry", retryTimer)
    /\ retryTimer' = 0
    /\ hist' = CountAttempt(hist)
    /\ aev' = AcqEvent("retry", FALSE, TRUE, NoEvent)
    /\ UNCHANGED <<initPc, gpsStatus, useFallbackLocation, captured, watchOn,
                   timersOn, alive, vehicleIdRef, clock, storeVars, acqFrame>>

\* lines 362-418: initializeLocationSharing resumes with the result of the
\* first attempt, installs its timers and returns their cleanup
InitContinue(ipLat) ==
    /\ initPc \in {"resolvedTrue", "resolvedFalse"}
    /\ initPc' = "done"
    /\ IF initPc = "resolvedTrue"
       THEN /\ watchOn' = TRUE
            /\ timersOn' = timersOn \cup {"safety"}
            /\ ev' = NoEvent
            /\ UNCHANGED <<scen, faults, lastUpdateRef, lastLocationRef,
                           vehicleTrackingIds, vehicleLocations>>
       ELSE /\ UpdateLocation("ip", GetAssignedVehicle, ipLat, SessionLng,
                              "ip", TRUE, 0)
            /\ timersOn' = timersOn \cup {"gpsRetry", "ipUpdate"}
            /\ UNCHANGED watchOn
    /\ UNCHANGED hist
    /\ aev' = AcqEvent("init", FALSE, FALSE, ev')
    /\ UNCHANGED <<gpsStatus, useFallbackLocation, captured, att, retryTimer,
                   alive, vehicleIdRef, clock, acqFrame>>

\* lines 309-313: a reading of the continuous watch
WatchPosition(lat, accuracy) ==
    LET vehicleId == GetAssignedVehicle
    IN  /\ watchOn
        /\ IF WatchAccepts(accuracy)
           THEN /\ vehicleIdRef' = vehicleId
                /\ UpdateLocation("watch", vehicleId, lat, SessionLng, "gps",
                                  FALSE, accuracy)
           ELSE /\ ev' = DroppedEvent("watch", accuracy)
                /\ UNCHANGED <<vehicleIdRef, scen, faults, lastUpdateRef,
                               lastLocationRef, vehicleTrackingIds,
                               vehicleLocations>>
        /\ gpsStatus' = StatusAfter(ev')
        /\ useFallbackLocation' = FallbackAfter(ev')
        /\ UNCHANGED hist
        /\ aev' = AcqEvent("watch", FALSE, FALSE, ev')
        /\ UNCHANGED <<initPc, captured, watchOn, timersOn, att, retryTimer,
                       alive, clock, acqFrame>>

\* lines 402-414: a tick of the 30 s safety interval
SafetyTick ==
    LET vehicleId == GetAssignedVehicle
    IN  /\ "safety" \in timersOn
        /\ vehicleIdRef' = vehicleId
        /\ IF vehicleId # Null /\ lastLocationRef.set
           THEN UpdateLocation("safety", vehicleId, lastLocationRef.lat,
                               lastLocationRef.lng,
                               IF captured THEN "ip" ELSE "gps", TRUE, 0)
           ELSE /\ ev' = NoEvent
                /\ UNCHANGED <<scen, faults, lastUpdateRef, lastLocationRef,
                               vehicleTrackingIds, vehicleLocations>>
        /\ gpsStatus' = StatusAfter(ev')
        /\ useFallbackLocation' = FallbackAfter(ev')
        /\ UNCHANGED hist
        /\ aev' = AcqEvent("safety", FALSE, FALSE, ev')
        /\ UNCHANGED <<initPc, captured, watchOn, timersOn, att, retryTimer,
                       alive, clock, acqFrame>>

\* lines 373-382: a tick of the 60 s retry interval
GpsRetryTick ==
    /\ "gpsRetry" \in timersOn
    /\ IF ~captured
       THEN /\ aev' = AcqEvent("gpsRetry", FALSE, FALSE, NoEvent)
            /\ UNCHANGED <<att, hist>>
       ELSE /\ att["tick"].st # "pending"
            /\ att' = StartAttempt(att, "tick", 0)
            /\ hist' = CountAttempt(hist)
            /\ aev' = AcqEvent("gpsRetry", FALSE, TRUE, NoEvent)
    /\ UNCHANGED <<initPc, gpsStatus, useFallbackLocation, captured, watchOn,
                   timersOn, retryTimer, alive, vehicleIdRef, clock, storeVars,
                   acqFrame>>

\* lines 385-392: a tick of the 5 min IP interval
IpUpdateTick(ipLat) ==
    /\ "ipUpdate" \in timersOn
    /\ IF ~captured
       THEN /\ ev' = NoEvent
            /\ UNCHANGED <<scen, faults, lastUpdateRef, lastLocationRef,
                           vehicleTrackingIds, vehicleLocations>>
       ELSE UpdateLocation("ip", GetAssignedVehicle, ipLat, SessionLng, "ip",
                           TRUE, 0)
    /\ UNCHANGED hist
    /\ aev' = AcqEvent("ipUpdate", FALSE, FALSE, ev')
    /\ UNCHANGED <<initPc, gpsStatus, useFallbackLocation, captured, watchOn,
                   timersOn, att, retryTimer, alive, vehicleIdRef, clock,
                   acqFrame>>

\* lines 440-458: the cleanup of the effect
Cleanup ==
    /\ alive
    /\ phase # "mounted"
    /\ alive' = FALSE
    /\ watchOn' = FALSE
    /\ timersOn' = IF initPc = "done" THEN {} ELSE timersOn
    /\ vehicleIdRef' = Null
    /\ lastLocationRef' = NoPoint
    /\ lastUpdateRef' = 0
    /\ aev' = AcqEvent("cleanup", FALSE, FALSE, NoEvent)
    /\ UNCHANGED <<initPc, gpsStatus, useFallbackLocation, captured, att,
                   retryTimer, hist, clock, vehicleLocations,
                   vehicleTrackingIds, ev, scen, faults, acqFrame>>

\* the driver signs in on a component that is mounted; useFallbackLocation
\* is what an earlier session of the component left
InitAcq ==
    /\ \E v \in {Null, 1} :
        /\ users = [InitUsers EXCEPT ![SessionDriver].assignedVehicleId = v]
        /\ vehicles = [w \in AllVehicleIds |->
                         IF w = v THEN [InitVehicles[w] EXCEPT !.driverId = SessionDriver]
                         ELSE InitVehicles[w]]
    /\ authed = TRUE
    /\ proc = [c \in Clients |-> Idle]
    /\ issued = {}
    /\ log = <<>>
    /\ bookings = [b \in BookingIds |-> NoBooking]
    /\ InitTracking
    /\ InitSessionVars
    /\ written = [v \in AllVehicleIds |-> NothingWritten]
    /\ alive = TRUE
    /\ initPc = "idle"
    /\ useFallbackLocation \in BOOLEAN
    /\ captured = useFallbackLocation
    /\ gpsStatus = IF useFallbackLocation THEN "denied" ELSE "searching"
    /\ watchOn = FALSE
    /\ timersOn = {}
    /\ att = [o \in Slots |-> NoAttempt]
    /\ retryTimer = 0
    /\ hist = NoHistory
    /\ aev = NoAcqEvent
    /\ authlog = NoAuthLog
    /\ deliveries = NoDeliveries
    /\ InitAuxVars

AcqNext ==
    \/ StartSession
    \/ AcqTryGps
    \/ \E slot \in Slots : GpsTimerFires(slot)
    \/ \E slot \in Slots, lat \in AcqLats, accuracy \in AcqAccuracies :
          GpsSuccess(slot, lat, accuracy)
    \/ \E slot \in Slots, code \in {"denied", "unavailable", "timeout"},
          ipLat \in IpLocations : GpsError(slot, code, ipLat)
    \/ RetryTimerFires
    \/ \E ipLat \in IpLocations : InitContinue(ipLat)
    \/ \E lat \in AcqLats, accuracy \in AcqAccuracies : WatchPosition(lat, accuracy)
    \/ SafetyTick
    \/ GpsRetryTick
    \/ \E ipLat \in IpLocations : IpUpdateTick(ipLat)
    \/ Cleanup

AcqSpec == InitAcq /\ [][AcqNext]_vars

\* the continuations of the session's own code and its timers run when they
\* are due; nothing obliges the device to deliver a GPS callback or a watch
\* reading, or the session to end
AcqFairness ==
    /\ WF_vars(StartSession)
    /\ WF_vars(AcqTryGps)
    /\ \A slot \in Slots : WF_vars(GpsTimerFires(slot))
    /\ WF_vars(RetryTimerFires)
    /\ WF_vars(\E ipLat \in IpLocations : InitContinue(ipLat))
    /\ WF_vars(SafetyTick)
    /\ WF_vars(GpsRetryTick)
    /\ WF_vars(\E ipLat \in IpLocations : IpUpdateTick(ipLat))

AcqLiveSpec == AcqSpec /\ AcqFairness

----------------------------------------------------------------------------
(* The operations that call requireAuth, with a user who may be signed out:
   the location update of a driver session, assignDriver and
   getOrCreateTrackingId.  authlog keeps, of the last operation: whether a
   user was signed in, whether it ended with the not-authenticated error,
   how many requests it sent to the store before it called requireAuth (or
   returned without calling it), and whether it left
   the store and the throttle refs of the session as they were. *)

AuthLats == {5}

AuthLog(op, raised, requests, storeSame, throttleSame) ==
    [op |-> op, authed |-> authed, raised |-> raised, requests |-> requests,
     storeSame |-> storeSame, throttleSame |-> throttleSame]

authFrame == <<vehicles, users, authed, proc, issued, log, bookings, tlog,
               written, acqVars, clock, phase, vehicleIdRef, deliveries,
               auxVars>>

\* updateLocation of the component, lines 36-109: a reading that passes the
\* gates moves the throttle refs (69-70) and reads the previous record (76)
\* before locationService.updateLocation calls requireAuth (line 332)
AuthUpdateLocation(lat, forceUpdate) ==
    /\ phase = "sharing"
    /\ UpdateLocation(IF forceUpdate THEN "ip" ELSE "oneshot", vehicleIdRef,
                      lat, SessionLng, IF forceUpdate THEN "ip" ELSE "gps",
                      forceUpdate, 0)
    /\ authlog' =
         IF ev'.outcome \in {"skipped_time", "skipped_distance"}
         THEN AuthLog("skipped", FALSE, 0, TRUE, TRUE)
         ELSE AuthLog("updateLocation", ~authed, 1,
                      /\ vehicleLocations' = vehicleLocations
                      /\ vehicleTrackingIds' = vehicleTrackingIds,
                      /\ lastUpdateRef' = lastUpdateRef
                      /\ lastLocationRef' = lastLocationRef)
    /\ UNCHANGED authFrame

\* assignDriver, line 226: requireAuth throws before anything else
SignedOutAssignDriver ==
    /\ ~authed
    /\ authlog' = AuthLog("assignDriver", TRUE, 0, TRUE, TRUE)
    /\ UNCHANGED <<authFrame, vehicleLocations, vehicleTrackingIds,
                   lastUpdateRef, lastLocationRef, ev, scen, faults>>

\* getOrCreateTrackingId, lines 75-106: get (79), requireAuth (93) and set
\* (97) inside one try block whose catch returns the generated code
AuthTrackCall ==
    \E v \in {1}, readOk \in BOOLEAN, writeOk \in BOOLEAN :
        LET r == GetOrCreateTrackingId(vehicleTrackingIds, v, authed, readOk, writeOk)
        IN  /\ vehicleTrackingIds' = r.tids
            /\ authlog' = AuthLog("getOrCreateTrackingId", FALSE, 1,
                                  r.tids = vehicleTrackingIds, TRUE)
            /\ UNCHANGED <<authFrame, vehicleLocations, lastUpdateRef,
                           lastLocationRef, ev, scen, faults>>

\* the identity provider signs the user in or out
SignInOrOut ==
    /\ authed' = ~authed
    /\ UNCHANGED <<vehicles, users, proc, issued, log, bookings, tlog,
                   written, acqVars, clock, phase, vehicleIdRef, authlog,
                   deliveries, auxVars,
                   vehicleLocations, vehicleTrackingIds, lastUpdateRef,
                   lastLocationRef, ev, scen, faults>>

\* a driver with an assigned vehicle has signed in
InitAuth ==
    /\ users = [InitUsers EXCEPT ![SessionDriver].assignedVehicleId = 1]
    /\ vehicles = [w \in AllVehicleIds |->
                     IF w = 1 THEN [InitVehicles[w] EXCEPT !.driverId = SessionDriver]
                     ELSE InitVehicles[w]]
    /\ authed = TRUE
    /\ proc = [c \in Clients |-> Idle]
    /\ issued = {}
    /\ log = <<>>
    /\ bookings = [b \in BookingIds |-> NoBooking]
    /\ InitTracking
    /\ InitSessionVars
    /\ InitExtVars

AuthNext ==
    \/ Tick
    \/ StartSession
    \/ SignInOrOut
    \/ \E lat \in AuthLats, forceUpdate \in BOOLEAN : AuthUpdateLocation(lat, forceUpdate)
    \/ SignedOutAssignDriver
    \/ AuthTrackCall

AuthSpec == InitAuth /\ [][AuthNext]_vars

----------------------------------------------------------------------------
(* The driver's MyDeliveries page (pages/driver/MyDeliveries.tsx), open in
   one or two tabs, next to the customer's booking and payment calls.  The
   page loads its list once and after each of its own updates; every tab
   has the call frame of its client. *)

\* getNextStatus, lines 73-84
GetNextStatus(currentStatus) ==
    IF currentStatus = "pending" THEN {"in_progress", "cancelled"}
    ELSE IF currentStatus = "in_progress" THEN {"completed", "cancelled"}
    ELSE {}

\* getBookingsByDriver, fallback-location.ts lines 620-631: the bookings as
\* the store holds them now
LoadedList == [b \in BookingIds |->
                 IF bookings[b].exists THEN bookings[b].status ELSE "none"]

drvFrame == <<assignOnlyVars, trackVars, sessionVars, written, acqVars, authlog,
              auxVars>>

\* loadData, lines 40-60
LoadData(c) ==
    /\ ~deliveries.tabs[c].updating
    /\ deliveries' = [deliveries EXCEPT !.tabs[c].list = LoadedList]
    /\ UNCHANGED <<vehicles, bookings, proc, drvFrame>>

\* handleStatusUpdateClick, lines 97-111
StatusUpdateClick(c, b) ==
    LET tab == deliveries.tabs[c]
    IN  /\ tab.list # <<>>
        /\ tab.list[b] # "none"
        /\ tab.selected = Null
        /\ GetNextStatus(tab.list[b]) # {}
        /\ deliveries' = [deliveries EXCEPT !.tabs[c] =
                            [tab EXCEPT !.selected = b, !.status = tab.list[b],
                                        !.newStatus = "none"]]
        /\ UNCHANGED <<vehicles, bookings, proc, drvFrame>>

\* lines 314-332: the driver picks one of getNextStatus(selectedBooking.status)
SelectStatus(c, status) ==
    LET tab == deliveries.tabs[c]
    IN  /\ tab.selected # Null
        /\ ~tab.updating
        /\ status \in GetNextStatus(tab.status)
        /\ deliveries' = [deliveries EXCEPT !.tabs[c].newStatus = status]
        /\ UNCHANGED <<vehicles, bookings, proc, drvFrame>>

\* handleStatusUpdate, lines 113-118: updateBooking(selectedBooking.id,
\* {status: newStatus}) is called
HandleStatusUpdate(c) ==
    LET tab == deliveries.tabs[c]
    IN  /\ tab.selected # Null
        /\ tab.newStatus # "none"
        /\ ~tab.updating
        /\ AllIdle
        /\ proc' = [proc EXCEPT ![c] =
                      [op |-> "updateBooking", pc |-> "getBooking",
                       bookingId |-> tab.selected, status |-> tab.newStatus,
                       vehicleId |-> Null, via |-> "driver"]]
        /\ deliveries' = [deliveries EXCEPT !.tabs[c].updating = TRUE]
        /\ UNCHANGED <<vehicles, bookings, drvFrame>>

\* lines 120-140: the call has returned; the page reloads and closes the dialog
StatusUpdateDone(c) ==
    LET tab == deliveries.tabs[c]
    IN  /\ tab.updating
        /\ proc[c].op = "idle"
        /\ deliveries' = [deliveries EXCEPT !.tabs[c] =
                            [NoDeliveriesTab EXCEPT !.list = LoadedList]]
        /\ UNCHANGED <<vehicles, bookings, proc, drvFrame>>

\* a step of a call in progress; the update of line 590 made for a driver is
\* kept in deliveries.last with the status it replaced
DriverBookingStep(c) ==
    /\ BookingStep(c)
    /\ deliveries' =
         IF /\ proc[c].op = "updateBooking"
            /\ proc[c].pc = "update"
            /\ proc[c].via = "driver"
         THEN [deliveries EXCEPT !.last =
                 [from |-> bookings[proc[c].bookingId].status,
                  to |-> proc[c].status]]
         ELSE deliveries
    /\ UNCHANGED drvFrame

\* the customer makes the one booking of this driver, of vehicle 1, and
\* pays, or the payment fails
CustomerCreateBooking(c) ==
    /\ AllIdle
    /\ \A b \in BookingIds : ~bookings[b].exists
    /\ CreateBookingCall(c, 1)
    /\ UNCHANGED <<deliveries, drvFrame>>

CustomerSavePayment(c, b, payStatus) ==
    /\ AllIdle
    /\ bookings[b].exists
    /\ SavePaymentCall(c, b, payStatus)
    /\ UNCHANGED <<deliveries, drvFrame>>

DriverNext ==
    \/ \E c \in Clients : LoadData(c)
    \/ \E c \in Clients, b \in BookingIds : StatusUpdateClick(c, b)
    \/ \E c \in Clients, status \in Statuses : SelectStatus(c, status)
    \/ \E c \in Clients : HandleStatusUpdate(c)
    \/ \E c \in Clients : StatusUpdateDone(c)
    \/ \E c \in Clients : DriverBookingStep(c)
    \/ \E c \in Clients : CustomerCreateBooking(c)
    \/ \E c \in Clients, b \in BookingIds, payStatus \in {"success", "failed"} :
          CustomerSavePayment(c, b, payStatus)

DriverSpec == InitBooking /\ [][DriverNext]_vars

----------------------------------------------------------------------------
(* Claims about the acquisition of positions *)

SessionVehicle == users[SessionDriver].assignedVehicleId

\* C13: when an attempt fails with PERMISSION_DENIED or POSITION_UNAVAILABLE
\* in a session with an assigned vehicle, the handler writes an IP-derived
\* location with force, so also less than 5000 ms after the last write,
\* (the record is stored unless the store refuses it) and schedules no retry.
C13_HardErrorForcesIp ==
    aev.kind \in {"denied", "unavailable"} =>
        /\ ~aev.scheduledRetry
        /\ ev.kind = "ip" /\ ev.source = "ip" /\ ev.force
        /\ ev.lat \in IpLocations
        /\ ev.outcome \in {"written", "failed"}
        /\ ~ev.refused =>
            /\ ev.outcome = "written"
            /\ vehicleLocations[SessionVehicle].exists
            /\ vehicleLocations[SessionVehicle].lat = ev.lat

C13_Witness ==
    /\ aev.kind = "denied"
    /\ ~aev.ended
    /\ ev.early
    /\ ev.outcome = "written"
    /\ retryTimer = 0

\* C14: in a session whose GPS attempts only time out, an IP-derived location
\* is written only once three attempts have been made; before that the
\* session only retries GPS.
C14_IpOnlyAfterThreeAttempts ==
    (aev.wrote /\ ev.kind = "ip" /\ ~hist.hardError) =>
        hist.attempts >= MaxRetryCount + 1

\* C15: in IP-fallback mode every tick of the 60 s retry interval starts a
\* GPS attempt, and when the attempt succeeds the interval is cancelled and
\* the continuous watch is started.
C15_RetryTickStartsAttempt ==
    /\ [](aev.kind = "gpsRetry" /\ useFallbackLocation => aev.startedAttempt)
    /\ [][(att["tick"].st = "pending" /\ aev'.kind = "success"
                /\ att'["tick"].st = "none")
            => ("gpsRetry" \notin timersOn' /\ watchOn')]_vars

\* C16: a live, initialized session that has a last known coordinate, from
\* GPS or from the IP fallback, has the 30 s safety interval running.
C16_SafetyTimerRuns ==
    (alive /\ initPc = "done" /\ lastLocationRef.set) => "safety" \in timersOn

\* C20: after the cleanup of a session no watch, no interval timer and no
\* retry timeout of the session is active, and the session writes no
\* location any more.
C20_NothingAfterCleanup ==
    ~alive =>
        /\ ~watchOn
        /\ timersOn = {}
        /\ retryTimer = 0
        /\ ~(aev.ended /\ aev.wrote)

\* C17: in a session of an authenticated driver with an assigned vehicle
\* that stays alive, with a store that serves every request, a location
\* record of the vehicle is eventually written whatever the GPS does; and
\* getIPLocation returns a coordinate for every answer of the endpoints.
C17_EventuallyWritten ==
    /\ \A r \in IpResponses, c \in CityDraws : GetIPLocation(r, c) # 0
    /\ <>(\/ SessionVehicle = Null
          \/ ~alive
          \/ faults > 0
          \/ \E v \in AllVehicleIds : vehicleLocations[v].exists)

----------------------------------------------------------------------------
(* Claim about operations of a signed-out user *)

\* C18: with no user signed in, a location update, a driver assignment and
\* a tracking-id creation each end with the not-authenticated error before
\* any request to the store, and leave the store and the throttle state of
\* the session as they were.
C18_SignedOutFailsFast ==
    (authlog.op \in {"updateLocation", "assignDriver", "getOrCreateTrackingId"}
        /\ ~authlog.authed) =>
        /\ authlog.raised
        /\ authlog.requests = 0
        /\ authlog.storeSame
        /\ authlog.throttleSame

----------------------------------------------------------------------------
(* Claim about the status changes of a driver *)

DriverEdges == {<<"pending", "in_progress">>, <<"pending", "cancelled">>,
                <<"in_progress", "completed">>, <<"in_progress", "cancelled">>}

\* C19: every status change a driver applies replaces the status the store
\* holds at that moment along pending -> in_progress, pending -> cancelled,
\* in_progress -> completed or in_progress -> cancelled, also when the
\* driver's list was loaded before the stored status changed.
C19_DriverEdgesOnly ==
    deliveries.last.to # "none" =>
        <<deliveries.last.from, deliveries.last.to>> \in DriverEdges

----------------------------------------------------------------------------
(* Claims about the Acquired state and the throttle refs *)

OneShotSucceeded == aev.kind = "success" /\ ev.kind = "oneshot"

\* C24: when a one-shot request succeeds with an accuracy above 100 m the
\* reading is dropped, the status does not become acquired and the
\* initializer is not resumed with a success that starts the watch.
C24_InaccurateStaysSearching ==
    (OneShotSucceeded /\ ev.acc > OneShotMaxAccuracy) =>
        /\ ev.outcome = "dropped"
        /\ gpsStatus # "acquired"
        /\ initPc # "resolvedTrue"

\* C25: when any GPS attempt of a live session succeeds with an accuracy of
\* at most 100 m, the status is acquired and the continuous watch is
\* running, or is started by the initializer's next step.
C25_AcquiredStartsWatch ==
    (OneShotSucceeded /\ ev.acc <= OneShotMaxAccuracy /\ ~aev.ended) =>
        /\ gpsStatus = "acquired"
        /\ watchOn \/ initPc = "resolvedTrue"

\* C29: when the store write of an admitted reading fails, lastUpdateRef
\* and lastLocationRef are left as they were before that reading.
C29_FailedWriteKeepsThrottle ==
    [][(ev'.kind # "none" /\ ev'.outcome = "failed" /\ ev' # ev) =>
            /\ lastUpdateRef' = lastUpdateRef
            /\ lastLocationRef' = lastLocationRef]_vars

----------------------------------------------------------------------------
(* The useRealtimeLocation hook of App.tsx and the listeners of the store *)

MaxEffects == 3
ViewVehicleIds == {1, 2}
ViewLats == {5, 18}

\* the function the hook passes to onValue as the snapshot callback in its
\* effect number e (lines 177-197), and the function onValue returns to it
SnapshotCallback(e) == <<"snapshot", e>>
UnsubscribeFn(e) == <<"unsubscribe", e>>

\* line 175: onValue(locationRef, callback, ...) registers callback on the path
OnValue(listeners, vehicleId, callback) ==
    listeners \cup {[vehicleId |-> vehicleId, callback |-> callback]}

\* line 209: off(locationRef, 'value', callback) removes from the path the
\* registrations of that callback, and no other
Off(listeners, vehicleId, callback) ==
    {l \in listeners : ~(l.vehicleId = vehicleId /\ l.callback = callback)}

\* lines 207-210: the cleanup the effect returned, when it returned one
HookCleanup(w) ==
    IF w.hook.eff = 0
    THEN w
    ELSE [w EXCEPT !.listeners = Off(w.listeners, w.hook.vehicleId,
                                     UnsubscribeFn(w.hook.eff)),
                   !.ended = w.ended \cup {w.hook.eff}]

\* lines 178-186: the snapshot callback keeps the coordinates of a record
\* that exists
ShownLat(old, rec) == IF rec.exists THEN rec.lat ELSE old

\* lines 162-210: the effect for vehicleId; without a vehicleId it returns at
\* line 168 and registers nothing; onValue delivers the current value
HookEffect(w, vehicleId) ==
    IF vehicleId = Null
    THEN [w EXCEPT !.hook = [vehicleId |-> Null, eff |-> 0, lat |-> w.hook.lat]]
    ELSE [w EXCEPT !.hook = [vehicleId |-> vehicleId, eff |-> w.nextEff,
                             lat |-> ShownLat(w.hook.lat,
                                              vehicleLocations[vehicleId])],
                   !.listeners = OnValue(w.listeners, vehicleId,
                                         SnapshotCallback(w.nextEff)),
                   !.nextEff = w.nextEff + 1]

viewFrame == <<vehicles, users, authed, proc, issued, log, bookings, trackVars,
               clock, phase, vehicleIdRef, lastUpdateRef, lastLocationRef, ev,
               scen, faults, written, acqVars, authlog, deliveries, admin,
               shop>>

\* line 211, the dependency [vehicleId]: the page passes another vehicleId;
\* the cleanup of the previous effect runs, then the effect
HookVehicleChange(vehicleId) ==
    /\ vehicleId # views.hook.vehicleId
    /\ views.nextEff <= MaxEffects
    /\ views' = [HookEffect(HookCleanup(views), vehicleId) EXCEPT !.notified = {}]
    /\ UNCHANGED <<vehicleLocations, viewFrame>>

\* the page is left: the cleanup of the last effect runs
HookUnmount ==
    /\ views.hook.eff # 0
    /\ views' = [HookCleanup(views) EXCEPT
                    !.hook = [vehicleId |-> Null, eff |-> 0, lat |-> views.hook.lat],
                    !.notified = {}]
    /\ UNCHANGED <<vehicleLocations, viewFrame>>

\* the effects whose snapshot callback is registered on vehicleLocations/{v}
Registered(listeners, vehicleId) ==
    {e \in 1..MaxEffects :
        [vehicleId |-> vehicleId, callback |-> SnapshotCallback(e)] \in listeners}

\* fallback-location.ts line 365: a driver's session writes
\* vehicleLocations/{v}; the store invokes every callback registered there,
\* and each of them runs setLocation (App.tsx lines 178-186)
LocationWritten(vehicleId, lat) ==
    /\ vehicleLocations' =
            [vehicleLocations EXCEPT ![vehicleId] =
                [exists |-> TRUE, lat |-> lat, lng |-> SessionLng,
                 timestamp |-> Now,
                 trackingId |-> GenerateConsistentTrackingId(vehicleId)]]
    /\ views' = [views EXCEPT
                    !.notified = Registered(views.listeners, vehicleId),
                    !.hook.lat = IF Registered(views.listeners, vehicleId) # {}
                                 THEN lat ELSE @]
    /\ UNCHANGED viewFrame

ViewNext ==
    \/ \E vehicleId \in ViewVehicleIds \cup {Null} : HookVehicleChange(vehicleId)
    \/ HookUnmount
    \/ \E vehicleId \in ViewVehicleIds, lat \in ViewLats :
            LocationWritten(vehicleId, lat)

ViewSpec == InitLoc /\ [][ViewNext]_vars

----------------------------------------------------------------------------
(* Claims about the realtime listener *)

\* C21: once the cleanup of an effect of useRealtimeLocation has run, a write
\* to vehicleLocations/{vehicleId} no longer invokes the callback that effect
\* registered.
C21_NoCallbackAfterCleanup == views.notified \cap views.ended = {}

----------------------------------------------------------------------------
(* A driver session while the admin deletes and reassigns vehicles *)

FleetVehicleIds == {1, 2}
FleetLats == {5, 18}
FleetAccuracies == {40}

\* the watchPosition success callback of DriverLocationUpdater.tsx, lines
\* 309-313, for the readings of FleetLats
FleetWatchPosition ==
    \E accuracy \in FleetAccuracies, lat \in FleetLats :
        /\ phase = "sharing"
        /\ GetAssignedVehicle # Null
        /\ WatchAccepts(accuracy)
        /\ UpdateLocation("watch", GetAssignedVehicle, lat, SessionLng,
                          "gps", FALSE, accuracy)
        /\ UNCHANGED <<clock, phase, vehicleIdRef, sessionFrame>>

\* deleteVehicle, fallback-location.ts lines 214-222, after its three removes
FleetDeleteVehicle ==
    \E v \in FleetVehicleIds :
        /\ AllIdle
        /\ authed
        /\ vehicles[v].exists
        /\ vehicles' = [vehicles EXCEPT ![v] = AbsentVehicle]
        /\ vehicleTrackingIds' = [vehicleTrackingIds EXCEPT ![v] = NoTracking]
        /\ vehicleLocations' = [vehicleLocations EXCEPT ![v] = NoLocationRecord]
        /\ admin' = [admin EXCEPT !.deleted = @ \cup {v}]
        /\ UNCHANGED <<users, authed, proc, issued, log, bookings, tlog, clock,
                       phase, vehicleIdRef, lastUpdateRef, lastLocationRef, ev,
                       scen, faults, written, acqVars, authlog, deliveries,
                       views, shop>>

\* the admin assigns the session's driver to a vehicle, or unassigns a vehicle
FleetAssignCall ==
    \E v \in FleetVehicleIds, d \in {SessionDriver, Null} :
        /\ AllIdle
        /\ AssignDriverCall(1, v, d)
        /\ UNCHANGED issued
        /\ UNCHANGED <<bookingVars, trackVars, sessionVars, extVars>>

FleetAssignStep ==
    /\ AssignStep(1)
    /\ UNCHANGED <<bookingVars, trackVars, sessionVars, extVars>>

FleetNext ==
    \/ StartSession
    \/ FleetWatchPosition
    \/ SafetyRefresh
    \/ FleetDeleteVehicle
    \/ FleetAssignCall
    \/ FleetAssignStep

FleetSpec == InitSession /\ [][FleetNext]_vars

----------------------------------------------------------------------------
(* Claims about deleted and reassigned vehicles *)

\* C22: after deleteVehicle(v) has completed, none of vehicles/v,
\* vehicleLocations/v and vehicleTrackingIds/v exists, also while a driver
\* session that was sharing v goes on.
C22_DeletedStaysDeleted ==
    \A v \in admin.deleted :
        /\ ~vehicles[v].exists
        /\ ~vehicleLocations[v].exists
        /\ ~vehicleTrackingIds[v].exists

\* C28: every write of vehicleLocations/{v} by the driver's session is for
\* the vehicle the store assigns to that driver when the write is made.
C28_WritesOnlyAssignedVehicle ==
    [][\A v \in AllVehicleIds :
            (AllIdle /\ vehicleLocations'[v] # vehicleLocations[v]
                     /\ vehicleLocations'[v].exists)
                => users[SessionDriver].assignedVehicleId = v]_vars

----------------------------------------------------------------------------
(* The vehicle form of ManageDrivers.tsx: handleSaveVehicle for an edit *)

FormAvailable == {"true", "false"}

\* ManageDrivers.tsx lines 428-451: the admin saves the form of the existing
\* vehicle v with driver d, or with "unassigned" (d = Null); saveVehicle is
\* entered (fallback-location.ts line 179: requireAuth)
HandleSaveVehicle(c, v, d, available) ==
    /\ AllIdle
    /\ authed
    /\ vehicles[v].exists
    /\ proc' = [proc EXCEPT ![c] =
                 [op |-> "handleSaveVehicle", pc |-> "saveVehicle",
                  vehicleId |-> v, driverId |-> d, available |-> available]]
    /\ UNCHANGED <<vehicles, users, authed, issued, log, admin>>

\* fallback-location.ts lines 181-202: set(vehicles/{id}, vehicleData) with
\* the form's driverId; then ManageDrivers.tsx lines 453-459: assignDriver is
\* called with null or with the form's driver (lines 225-231)
SaveVehicleSet(c) ==
    /\ proc[c].op = "handleSaveVehicle" /\ proc[c].pc = "saveVehicle"
    /\ LET p == proc[c]
       IN  /\ vehicles' = [vehicles EXCEPT ![p.vehicleId] =
                            [exists |-> TRUE, driverId |-> p.driverId,
                             available |-> p.available]]
           /\ admin' = [admin EXCEPT !.lastSave =
                            [vehicleId |-> p.vehicleId,
                             stored |-> vehicles[p.vehicleId].driverId,
                             driverId |-> p.driverId]]
           /\ proc' = [proc EXCEPT ![c] =
                        [op |-> "assignDriver", pc |-> "getVehicle",
                         vehicleId |-> p.vehicleId, driverId |-> p.driverId,
                         currentDriverId |-> Null, assigned |-> Null]]
    /\ UNCHANGED <<users, authed, issued, log>>

formFrame == <<bookingVars, trackVars, sessionVars, written, acqVars, authlog,
               deliveries, views, shop>>

FormSave ==
    \E c \in Clients, v \in VehicleIds, d \in DriverIds \cup {Null},
       available \in FormAvailable :
        HandleSaveVehicle(c, v, d, available) /\ UNCHANGED formFrame

FormSaveStep == \E c \in Clients : SaveVehicleSet(c) /\ UNCHANGED formFrame

FormAssignStep ==
    \E c \in Clients : AssignStep(c) /\ UNCHANGED <<formFrame, admin>>

FormNext == FormSave \/ FormSaveStep \/ FormAssignStep

FormSpec == InitAssign /\ [][FormNext]_vars

----------------------------------------------------------------------------
(* Claims about the vehicle form *)

\* the last save of the form replaced the stored driver by another or none
SavedOtherDriver ==
    /\ admin.lastSave.vehicleId # Null
    /\ admin.lastSave.stored # Null
    /\ admin.lastSave.stored # admin.lastSave.driverId

\* C23: when the admin has saved vehicle V, whose stored driver was Y, with
\* another driver or none, then after saveVehicle and assignDriver have
\* returned Y's assignedVehicleId no longer references V and the vehicle
\* and driver links agree.
C23_FormSaveClearsPreviousDriver ==
    (AllIdle /\ SavedOtherDriver) =>
        /\ users[admin.lastSave.stored].assignedVehicleId # admin.lastSave.vehicleId
        /\ LinkConsistent(vehicles, users)

----------------------------------------------------------------------------
(* The customer's way to a booking: NewBooking, then MapPage.createBooking *)

\* MyDeliveries.tsx line 415: v.available && v.driverId, on the loaded list
Offered(vs) ==
    {[id |-> v, driverId |-> vs[v].driverId] :
        v \in {w \in AllVehicleIds : /\ vs[w].exists
                                     /\ vs[w].available = "true"
                                     /\ vs[w].driverId # Null}}

shopFrame == <<assignOnlyVars, trackVars, sessionVars, written, acqVars,
               authlog, deliveries, views, admin>>

\* MyDeliveries.tsx lines 406-430: the customer opens the NewBooking page,
\* which loads the vehicles
ShopLoad(c) ==
    /\ proc[c].op = "idle"
    /\ shop' = [shop EXCEPT ![c] = [list |-> Offered(vehicles),
                                    selected |-> NoSelection, booked |-> FALSE]]
    /\ shop'[c] # shop[c]
    /\ UNCHANGED <<vehicles, bookings, proc, shopFrame>>

\* MyDeliveries.tsx lines 446-463: handleSelectVehicle keeps the list's copy
\* of the vehicle; part_000 lines 47-62: MapPage reads it back
ShopSelect(c, item) ==
    /\ shop[c].selected = NoSelection
    /\ item \in shop[c].list
    /\ item.driverId # Null
    /\ shop' = [shop EXCEPT ![c].selected = item]
    /\ UNCHANGED <<vehicles, bookings, proc, shopFrame>>

ShopSelectOffered ==
    \E c \in Clients : \E item \in shop[c].list : ShopSelect(c, item)

\* part_000 lines 82-121: MapPage.createBooking checks the copy and calls
\* bookingService.createBooking; lines 312-315: the button is offered until
\* the page has a booking
ShopCreateBooking(c) ==
    /\ shop[c].selected.id # Null
    /\ shop[c].selected.driverId # Null
    /\ ~shop[c].booked
    /\ CreateBookingCall(c, shop[c].selected.id)
    /\ shop' = [shop EXCEPT ![c].booked = TRUE]
    /\ UNCHANGED shopFrame

\* fallback-location.ts lines 569-573
ShopMarkInUse(c) ==
    /\ CreateBookingMarkInUse(c)
    /\ UNCHANGED <<shop, shopFrame>>

\* the driver ends a delivery: updateBooking with completed or cancelled
ShopEndBooking ==
    \E c \in Clients, b \in BookingIds, st \in {"completed", "cancelled"} :
        /\ AllIdle
        /\ bookings[b].exists
        /\ UpdateBookingCall(c, b, st)
        /\ UNCHANGED <<shop, shopFrame>>

ShopUpdateStep ==
    \E c \in Clients :
        /\ UpdateBookingGet(c) \/ UpdateBookingWrite(c) \/ UpdateBookingMarkAvailable(c)
        /\ UNCHANGED <<shop, shopFrame>>

\* vehicles 1 and 2 have their drivers, vehicle 3 has none
InitShop ==
    /\ \E s \in ConsistentStores :
        /\ vehicles = s.vs /\ users = s.us
        /\ \A d \in DriverIds : s.vs[d].driverId = d
    /\ authed = TRUE
    /\ proc = [c \in Clients |-> Idle]
    /\ issued = {}
    /\ log = <<>>
    /\ bookings = [b \in BookingIds |-> NoBooking]
    /\ InitTracking
    /\ InitSessionVars
    /\ InitExtVars

ShopNext ==
    \/ \E c \in Clients : ShopLoad(c)
    \/ ShopSelectOffered
    \/ \E c \in Clients : ShopCreateBooking(c)
    \/ \E c \in Clients : ShopMarkInUse(c)
    \/ ShopEndBooking
    \/ ShopUpdateStep

ShopSpec == InitShop /\ [][ShopNext]_vars

----------------------------------------------------------------------------
(* Claims about the creation of bookings *)

\* the non-terminal bookings of vehicle v
ActiveBookings(bs, v) ==
    {b \in BookingIds : bs[b].exists /\ bs[b].vehicleId = v
                         /\ bs[b].status \in NonTerminal}

\* C26: a booking is created only for a vehicle whose stored record is
\* available and has a driver, and no vehicle ever has more than one
\* non-terminal booking, also when two customers book at the same time.
C26_OneActiveBookingPerVehicle ==
    /\ [](\A v \in AllVehicleIds : Cardinality(ActiveBookings(bookings, v)) <= 1)
    /\ [][\A b \in BookingIds :
            (bookings'[b].exists /\ ~bookings[b].exists) =>
                /\ vehicles[bookings'[b].vehicleId].available = "true"
                /\ vehicles[bookings'[b].vehicleId].driverId # Null]_vars

----------------------------------------------------------------------------
(* Claims about payments and booking status *)

\* C27: a step of savePayment changes the status of a booking only from
\* pending_payment to pending, and only for a successful payment; a booking
\* stored as pending, in_progress, completed, cancelled or converted keeps
\* its status whatever payment is recorded.
C27_PaymentOnlyConfirmsUnpaid ==
    [][\A c \in Clients, b \in BookingIds :
            (proc[c].op = "savePayment" /\ proc[c].bookingId = b
                /\ bookings'[b].status # bookings[b].status)
                => /\ bookings[b].status = "pending_payment"
                   /\ bookings'[b].status = "pending"
                   /\ proc[c].status = "success"]_vars

----------------------------------------------------------------------------
(* Claims about the existence of vehicle records *)

\* C30: no step of an operation other than saveVehicle turns an absent
\* vehicles/{id} record into an existing one.
C30_AbsentVehicleStaysAbsent ==
    [][\A v \in AllVehicleIds :
            ~vehicles[v].exists => ~vehicles'[v].exists]_vars

====
